---- MODULE Spec2Model ----
(***************************************************************************)
(* Tracking session of edutrack: the zustand tracking store, the per-hook  *)
(* refs (isTrackingRef, abortControllerRef) and the asynchronous frame     *)
(* loops of the five detector hooks (useColorTracker, useAiTracker,        *)
(* useKnnTracker, useMouseTracker, usePoseTracker).                        *)
(*                                                                         *)
(* JavaScript runs one task at a time: every action below is the code that *)
(* runs between two suspension points (await) of a hook, or one UI event   *)
(* handler.  A loop that is suspended keeps its local variables (the       *)
(* frame counter, the local results array) in its loop record.             *)
(*                                                                         *)
(* Time is counted in ticks, TicksPerFrame ticks per frame of the nominal  *)
(* rate metadata.fps; the progress percentage is kept as a whole number    *)
(* (rounded down).                                                         *)
(*                                                                         *)
(* Scope: besides the loop of the current run the session holds at most    *)
(* one loop of an earlier run that has not exited yet, and only loops of   *)
(* the seek-driven hooks are left behind that way: a run is not started    *)
(* while an invocation of the mouse or pose tracker is still alive.        *)
(***************************************************************************)
EXTENDS Integers, Sequences, FiniteSets, TLC

\* ------------------------------------------------------------------ bounds
\* floor(duration * fps) of the loaded video
TotalFrames == 2
\* largest sampleEveryNthFrame the runs are started with
MaxSampleStep == 2
\* ticks per nominal frame: the video presents frames at up to
\* TicksPerFrame times the nominal rate metadata.fps
TicksPerFrame == 3

\* the AI detector: boxes lie at the pixels 0..MaxPos of one line
MaxPos == 2
\* most candidates of the target class model.detect() finds in a frame
MaxCandidates == 2
\* scores of the candidates, 1..MaxScore
MaxScore == 2
\* largest aiLostFrameTolerance and aiMaxJumpPx of the configuration
MaxTolerance == 1
MaxJumpPx == 1
\* frames of the video an AI run goes through, and the lost count up to
\* which frames are followed
MaxAiFrames == 3
MaxLostCount == 3

\* detectBrightObjects: the image is one row of ImageWidth pixels with
\* channels 0..MaxChannel; minPixelCount goes up to MaxMinPixelCount
ImageWidth == 3
MaxChannel == 1
MaxMinPixelCount == 2

\* erode: the masks of a GridWidth x GridHeight grid that differ from an
\* all-foreground or all-background mask in at most MaxHoles pixels
GridWidth == 5
GridHeight == 5
MaxHoles == 2

\* findBlobs: the masks made of two rectangles of a BlobGridWidth x
\* BlobGridHeight grid; minArea is 1 or LargeMinArea, maxArea is SmallMaxArea
\* or the whole grid
BlobGridWidth == 6
BlobGridHeight == 2
LargeMinArea == 2
SmallMaxArea == 6

\* background subtraction: gray levels of the background, the difference of
\* the one changed pixel and the largest diffThreshold
MaxGray == 2
MaxDelta == 2
MaxThreshold == 1

\* selectMouseBlob: blobs on one row at 0..MaxBlobX with areas
\* 1..MaxBlobArea, at most MaxBlobs of them, maxJumpDistance 1..MaxJump
MaxBlobX == 4
MaxBlobArea == 2
MaxBlobs == 2
MaxJump == 2

\* analyzeZones: at most MaxResults tracking results, fps 1..MaxFps
MaxResults == 4
MaxFps == 2

\* captureBackground: the frames sampled across the video
CaptureSamples == 2

\* a click lands on a point whose coordinates are 0 or 12, 16, ... up to
\* 4 * MaxClickStep
MaxClickStep == 5

\* the largest real length, in cm, that is entered
MaxCm == 2

\* the largest number of examples of one label that is added to the
\* classifier after a startTraining
MaxSamples == 4

\* the video of the KNN search is 2 * HalfWidth pixels wide
HalfWidth == 3

\* the largest knnSearchRadius, in pixels
MaxRadius == 2

\* the largest knnConfidence, in thirds
MaxKnnConfidence == 3

\* the largest number of calls of one loader
MaxCalls == 4

\* ------------------------------------------------------- program constants
\* useColorTracker.runTracking yields to the browser every 10th frame
BrightnessYieldEvery == 10
\* useAiTracker.runTracking / useKnnTracker.runTracking yield every 5th frame
AiYieldEvery == 5
\* findBlobs keeps a blob whose aspect ratio is below 5.5 = 11 / 2
AspectRatioLimitTimes2 == 11

Null == "null"

Detectors == {"brightness", "ai-object", "knn-custom", "mouse-tracker", "movenet-pose"}

SeekDriven == {"brightness", "ai-object", "knn-custom"}

PlaybackDriven == {"mouse-tracker", "movenet-pose"}

DurationTicks == TotalFrames * TicksPerFrame

Min(a, b) == IF a < b THEN a ELSE b

Max(a, b) == IF a > b THEN a ELSE b

\* (n / d) * 100, rounded down to a whole percent
Percent(n, d) == (100 * n) \div d

\* finishDrawing keeps a line of at least this many pixels
MinLineLength == 20

\* the real length finishDrawing gives to a new line
DefaultRealDistanceCm == 10

\* addTrainingSample asks for this many samples of each label
SamplesNeeded == 3

\* predictClass asks for this many neighbours, so a confidence is a number
\* of thirds
KnnNeighbours == 3

VARIABLES store, method, isTrackingRef, abortControllerRef, frameCallbackIdRef, endedHandlerRef, loops, video, session, ai, mouse, call,
          calibration, knn, loader

vars == <<store, method, isTrackingRef, abortControllerRef, frameCallbackIdRef, endedHandlerRef, loops, video, session, ai, mouse, call,
          calibration, knn, loader>>

\* no call of a library function is being followed
NoCall == [fn |-> "none", returned |-> FALSE]

\* --------------------------------------------------------- tracking store
InitialStore == [isTracking |-> FALSE, trackingProgress |-> 0, results |-> <<>>, error |-> Null]

\* startTracking without the clearing of the previous error
startTrackingKeepingError(st) == [st EXCEPT !.isTracking = TRUE, !.trackingProgress = 0, !.results = <<>>]

\* startTracking without the clearing of the previous results
startTrackingKeepingResults(st) == [st EXCEPT !.isTracking = TRUE, !.trackingProgress = 0, !.error = Null]

startTracking(st) == [st EXCEPT !.isTracking = TRUE, !.trackingProgress = 0, !.results = <<>>, !.error = Null]

stopTracking(st) == [st EXCEPT !.isTracking = FALSE]

resetTracking(st) == [st EXCEPT !.isTracking = FALSE, !.trackingProgress = 0, !.results = <<>>, !.error = Null]

setTrackingProgress(st, progress) == [st EXCEPT !.trackingProgress = Min(100, Max(0, progress))]

setTrackingResults(st, rs) == [st EXCEPT !.results = rs]

setTrackingError(st, e) == [st EXCEPT !.error = e, !.isTracking = FALSE]

isTrackingComplete(st) == ~st.isTracking /\ st.trackingProgress = 100 /\ Len(st.results) > 0

hasTrackingData(st) == Len(st.results) > 0

\* ------------------------------------------------------------ frame loops
\* The locals of one invocation of runTracking that is suspended at an await
\* or waits for a frame callback.  A session keeps the current loop and, when
\* a run is started while the loop of an earlier run has not exited yet, that
\* earlier loop; a third start waits until one of the two has exited.
LoopIds == {1, 2}

\* no loop (the null of frameCallbackIdRef and endedHandlerRef)
NoLoop == 0

IdleLoop == [det |-> "none", pc |-> "idle", frameNumber |-> 0, timestamp |-> 0, sampleStep |-> 1, results |-> <<>>, frameCount |-> 0, lastProcessedFrame |-> 0, trackingFinished |-> FALSE, listening |-> FALSE, cancelled |-> FALSE, resultsAtCancel |-> 0, threw |-> FALSE]

\* the session state of the design (Idle, Running, Completed, Cancelled,
\* Failed) as the hooks drive it, and whether the last step started a run
\* from an ended session that had not been reset
Ended == {"Completed", "Cancelled", "Failed"}

IdleSession == [phase |-> "Idle", rerun |-> FALSE, started |-> FALSE, cleared |-> FALSE]

\* the session once runTracking has called startTracking(): whether the
\* session it started from had ended without a reset, and whether it held
\* results, progress and an error that the start had to clear
Started(S) == [phase |-> "Running", rerun |-> S.session.phase \in Ended, started |-> TRUE, cleared |-> Len(S.store.results) > 0 /\ S.store.trackingProgress > 0 /\ S.store.error # "null"]


\* the whole state as one record, so that the steps of a handler compose
Cur == [store |-> store, method |-> method, isTrackingRef |-> isTrackingRef, abortControllerRef |-> abortControllerRef, frameCallbackIdRef |-> frameCallbackIdRef, endedHandlerRef |-> endedHandlerRef, loops |-> loops, video |-> video, session |-> [session EXCEPT !.rerun = FALSE, !.started = FALSE, !.cleared = FALSE]]

Becomes(S) ==
    /\ store' = S.store
    /\ method' = S.method
    /\ isTrackingRef' = S.isTrackingRef
    /\ abortControllerRef' = S.abortControllerRef
    /\ frameCallbackIdRef' = S.frameCallbackIdRef
    /\ endedHandlerRef' = S.endedHandlerRef
    /\ loops' = S.loops
    /\ video' = S.video
    /\ session' = S.session
    /\ ai' = ai
    /\ mouse' = mouse
    /\ call' = call
    /\ UNCHANGED <<calibration, knn, loader>>

Active(l) == loops[l].pc # "idle"

\* the slot a new loop's locals are kept in
FreeSlot(l) == /\ ~Active(l)
               /\ \A k \in LoopIds : k < l => Active(k)

\* promise continuations and due frame callbacks run before any other task
MicrotasksDone == \A l \in LoopIds : loops[l].pc \notin {"seeked", "seekError", "rvfcDue"}

FrameResult(frameNumber, timestamp, outcome) == [frameNumber |-> frameNumber, timestamp |-> timestamp, centerOfMass |-> outcome]

\* the video that is loaded: the subject is in view in every other frame,
\* not in the first one
SubjectVisible(frameNumber) == frameNumber % 2 = 1

Detection(frameNumber) == IF SubjectVisible(frameNumber) THEN "point" ELSE "null"

\* what a detector call on a frame can come back with: the position or null,
\* or an exception of the model (detect, estimatePoses)
DetectOutcomes(d, frameNumber) == IF d \in {"ai-object", "movenet-pose"} THEN {Detection(frameNumber), "throw"} ELSE {Detection(frameNumber)}

YieldEvery(d) == IF d = "brightness" THEN BrightnessYieldEvery ELSE AiYieldEvery

\* the checks runTracking makes before startTracking(), as "ok" or what is missing
Preconditions(d) == CASE d = "brightness" -> {"ok", "noVideo"}
                      [] d = "ai-object" -> {"ok", "noModel", "noTargetClass"}
                      [] d = "knn-custom" -> {"ok", "notTrained"}
                      [] d = "mouse-tracker" -> {"ok", "noBackground"}
                      [] d = "movenet-pose" -> {"ok", "noModel"}

PreconditionError(d, pre) == CASE d = "brightness" -> "Video not loaded"
                               [] d = "ai-object" -> IF pre = "noTargetClass" THEN "Please select a target class" ELSE "Video or model not loaded"
                               [] d = "knn-custom" -> "Models not loaded or not trained"
                               [] d = "mouse-tracker" -> "Video, metadata, or background not ready"
                               [] d = "movenet-pose" -> "Pose model not loaded. Click \"Load Model\" first."

PreconditionErrors == UNION {{PreconditionError(d, pre) : pre \in Preconditions(d) \ {"ok"}} : d \in Detectors}

\* ------------------------------------------- the mouse tracker's background
\* useMouseTracker before a background is captured: the refs
\* backgroundImageDataRef and backgroundGrayscaleRef, the hasBackground
\* state, the captureBackground invocations that are under way, and the
\* video element
InitialMouse == [backgroundImageDataRef |-> FALSE, backgroundGrayscaleRef |-> FALSE, hasBackground |-> FALSE,
                 capture |-> [pc |-> "idle", i |-> 0, originalTime |-> 0, wasPaused |-> TRUE]]

\* ------------------------------------------------------ calibration store
\* line: null
NoLine == [start |-> <<>>, end |-> <<>>, pixelLength |-> <<>>, realDistanceCm |-> 0]

\* useCalibrationStore as it is created; clicks is the sequence of clicks
\* the calibration drawer has taken since Set Scale was last pressed, and
\* lastOp the operation of the store that was called last (cm is the
\* argument of setRealDistance)
InitialCalibration == [line |-> NoLine, pixelsPerCm |-> <<>>, isDrawingCalibration |-> FALSE, drawingStart |-> <<>>,
                       clicks |-> <<>>, lastOp |-> [op |-> "none", cm |-> 0]]

\* ------------------------------------------------------- KNN training
\* the KNN fields of useTrackingStore, the number of examples of each
\* label in the classifier, and the values of the store that the callbacks
\* of the last render have captured
InitialKnn == [targetSamples |-> 0, backgroundSamples |-> 0, knnReady |-> FALSE, isTrainingMode |-> FALSE,
               classifier |-> [target |-> 0, background |-> 0],
               rendered |-> [targetSamples |-> 0, backgroundSamples |-> 0, knnReady |-> FALSE, isTrainingMode |-> FALSE,
                             isTracking |-> FALSE]]

\* ------------------------------------------------------- model loading
Loaders == {"loadModel", "loadKnnModels"}

\* the module-level variables of a loader (0 is null; an instance and a
\* promise carry the number of the load that made them; modelInstance is
\* mobilenetInstance in loadKnnModels, and loadModel has no
\* knnClassifierInstance), the state of every load that was started, the
\* promises that callers wait on, what callers have received, and the
\* number of calls
InitialLoader == [f \in Loaders |-> [modelInstance |-> 0, knnClassifierInstance |-> 0, modelPromise |-> 0,
                                      loads |-> <<>>, waiting |-> {}, received |-> {}, calls |-> 0]]

\* ----------------------------------------- the AI detector's continuity
\* BBox: every box has the same height and lies on the same line
BoxWidth == 2

Boxes == [x : 0..MaxPos, width : {BoxWidth}]

\* null where a BBox, a detection or a number is expected
NoBox == [x |-> 0 - 1, width |-> 0]

NoDetection == [bbox |-> NoBox, score |-> 0 - 1]

NoNumber == 0 - 1

\* a detection of the target class above the confidence threshold
Candidates == [bbox : Boxes, score : 1..MaxScore]

CandidateLists == UNION {[1..n -> Candidates] : n \in 0..MaxCandidates}

Abs(n) == IF n < 0 THEN 0 - n ELSE n

\* calculateIoU dividing by the area of box1 instead of the union
calculateIoUOverFirst(box1, box2) ==
    LET x1 == Max(box1.x, box2.x)
        x2 == Min(box1.x + box1.width, box2.x + box2.width)
        intersection == Max(0, x2 - x1)
    IN <<intersection, box1.width>>

\* calculateIoU as the pair <<intersection, union>>
calculateIoU(box1, box2) ==
    LET x1 == Max(box1.x, box2.x)
        x2 == Min(box1.x + box1.width, box2.x + box2.width)
        intersection == Max(0, x2 - x1)
    IN <<intersection, box1.width + box2.width - intersection>>

\* a > b for two IoU values (union > 0 ? intersection / union : 0)
IoUGreater(a, b) ==
    IF a[2] <= 0 THEN FALSE
    ELSE IF b[2] <= 0 THEN a[1] > 0
    ELSE a[1] * b[2] > b[1] * a[2]

\* bboxDistance, twice the distance of the centers
bboxDistance(box1, box2) == Abs((2 * box2.x + box2.width) - (2 * box1.x + box1.width))

\* bboxArea, the common height being 1
bboxArea(box) == box.width

\* bboxCenter, twice the x of the center
bboxCenter(box) == 2 * box.x + box.width

\* the comparisons of the reduce calls: by score, by area, by the distance
\* to box, by the IoU with box
Better(by, curr, best, box) ==
    CASE by = "score" -> curr.score > best.score
      [] by = "area" -> bboxArea(curr.bbox) > bboxArea(best.bbox)
      [] by = "distance" -> bboxDistance(curr.bbox, box) < bboxDistance(best.bbox, box)
      [] by = "iou" -> IoUGreater(calculateIoU(curr.bbox, box), calculateIoU(best.bbox, box))

\* detections.reduce((best, curr) => better(curr, best) ? curr : best)
RECURSIVE Reduce(_, _, _, _, _)
Reduce(detections, i, best, by, box) ==
    IF i > Len(detections) THEN best
    ELSE Reduce(detections, i + 1, IF Better(by, detections[i], best, box) THEN detections[i] ELSE best, by, box)

\* selectBestDetection taking the highest score under every strategy
selectBestDetectionByScore(detections, strategy, previousBox) ==
    IF Len(detections) = 0 THEN NoDetection
    ELSE Reduce(detections, 2, detections[1], "score", previousBox)

selectBestDetection(detections, strategy, previousBox) ==
    IF Len(detections) = 0 THEN NoDetection
    ELSE IF strategy = "highestScore" THEN Reduce(detections, 2, detections[1], "score", previousBox)
    ELSE IF strategy = "largest" THEN Reduce(detections, 2, detections[1], "area", previousBox)
    ELSE IF previousBox = NoBox THEN Reduce(detections, 2, detections[1], "score", previousBox)
    ELSE Reduce(detections, 2, detections[1], "distance", previousBox)

selectByIoU(detections, lockedBox) ==
    IF Len(detections) = 0 THEN NoDetection
    ELSE Reduce(detections, 2, detections[1], "iou", lockedBox)

\* the configuration: aiTrackStrategy, aiMaxJumpPx, aiLostFrameTolerance
AiConfigs == [aiTrackStrategy : {"highestScore", "largest", "nearestPrev"}, aiMaxJumpPx : 0..MaxJumpPx, aiLostFrameTolerance : 0..MaxTolerance]

DefaultAiConfig == [aiTrackStrategy |-> "nearestPrev", aiMaxJumpPx |-> MaxJumpPx, aiLostFrameTolerance |-> MaxTolerance]

\* lastAiBox, lastAiBoxSource and lostCount of the tracking store
InitialAiStore == [lastAiBox |-> NoBox, lastAiBoxSource |-> "auto", lostCount |-> 0]

setLastAiBox(st, bbox, source) == [lastAiBox |-> bbox, lastAiBoxSource |-> source, lostCount |-> 0]

incrementLostCount(st) == [st EXCEPT !.lostCount = @ + 1]

resetLostCount(st) == [st EXCEPT !.lostCount = 0]

clearAiLock(st) == [st EXCEPT !.lastAiBox = NoBox, !.lastAiBoxSource = "auto"]

\* a TrackingResult of the AI tracker
NullResult == [centerOfMass |-> NoNumber, aiBBox |-> NoBox, aiScore |-> NoNumber]

BoxResult(bbox, score) == [centerOfMass |-> bboxCenter(bbox), aiBBox |-> bbox, aiScore |-> score]

\* the AI detector: the store, the configuration, whether a run is under
\* way and the values of lastAiBox, lastAiBoxSource and lostCount that the
\* processFrame of the run reads (those of the render runTracking was
\* called from), the number of frames the run has processed, and of the
\* last frame processed the candidates, the selected candidate and the result
InitialAi(config) == [store |-> InitialAiStore, config |-> config, running |-> FALSE, closure |-> InitialAiStore, frames |-> 0, detections |-> <<>>, selected |-> NoDetection, result |-> NullResult]

\* processFrame of useAiTracker once model.detect() has answered with the
\* detections of the target class
processFrame(A, detections) ==
    LET c == A.closure
        cfg == A.config
        A0 == [A EXCEPT !.frames = @ + 1, !.detections = detections, !.selected = NoDetection]
        selected == IF c.lastAiBoxSource = "user" /\ c.lastAiBox # NoBox
                    THEN selectByIoU(detections, c.lastAiBox)
                    ELSE selectBestDetection(detections, cfg.aiTrackStrategy, c.lastAiBox)
    IN IF Len(detections) = 0
       THEN IF c.lostCount >= cfg.aiLostFrameTolerance
            THEN [A0 EXCEPT !.store = setLastAiBox(incrementLostCount(@), NoBox, "auto"), !.result = NullResult]
            ELSE IF c.lastAiBox # NoBox
                 THEN [A0 EXCEPT !.store = incrementLostCount(@), !.result = BoxResult(c.lastAiBox, 0)]
                 ELSE [A0 EXCEPT !.store = incrementLostCount(@), !.result = NullResult]
       ELSE IF selected = NoDetection
            THEN [A0 EXCEPT !.store = incrementLostCount(@), !.result = NullResult]
            ELSE IF c.lastAiBox # NoBox /\ cfg.aiMaxJumpPx > 0 /\ bboxDistance(selected.bbox, c.lastAiBox) > 2 * cfg.aiMaxJumpPx
                 THEN [A0 EXCEPT !.selected = selected, !.store = incrementLostCount(@), !.result = BoxResult(c.lastAiBox, selected.score)]
                 ELSE [A0 EXCEPT !.selected = selected, !.store = resetLostCount(setLastAiBox(@, selected.bbox, c.lastAiBoxSource)), !.result = BoxResult(selected.bbox, selected.score)]

AiBecomes(A) ==
    /\ ai' = A
    /\ UNCHANGED <<store, method, isTrackingRef, abortControllerRef, frameCallbackIdRef, endedHandlerRef, loops, video, session, mouse, call, calibration, knn, loader>>

\* runTracking of useAiTracker passes its checks: the loop it starts calls
\* the processFrame of the render it was called from
AiRunTracking ==
    /\ ~ai.running
    /\ AiBecomes([ai EXCEPT !.running = TRUE, !.closure = ai.store, !.frames = 0, !.detections = <<>>, !.selected = NoDetection, !.result = NullResult])

\* the loop of runTracking processes its next frame
AiProcessFrame(detections) ==
    /\ ai.running
    /\ ai.frames < MaxAiFrames
    /\ ai.store.lostCount < MaxLostCount
    /\ AiBecomes(processFrame(ai, detections))

\* the run ends: completed, cancelled or failed
AiRunEnds ==
    /\ ai.running
    /\ AiBecomes([ai EXCEPT !.running = FALSE])

\* DebugOverlay.handleClick on a box of latestDetections: of the last frame
\* processed during a run, of the live preview otherwise
AiLockInstance(bbox) ==
    /\ ai.running => \E i \in 1..Len(ai.detections) : ai.detections[i].bbox = bbox
    /\ AiBecomes([ai EXCEPT !.store = setLastAiBox(@, bbox, "user")])

\* the Unlock button, rendered while lastAiBoxSource is 'user'
AiUnlock ==
    /\ ai.store.lastAiBoxSource = "user"
    /\ AiBecomes([ai EXCEPT !.store = clearAiLock(@)])

\* the Reset button: resetTracking
AiReset ==
    /\ ~ai.running
    /\ ai.store # InitialAiStore
    /\ AiBecomes([ai EXCEPT !.store = InitialAiStore])

AiInit ==
    /\ store = InitialStore
    /\ method = "ai-object"
    /\ isTrackingRef = [d \in Detectors |-> FALSE]
    /\ abortControllerRef = [d \in Detectors |-> Null]
    /\ frameCallbackIdRef = [d \in PlaybackDriven |-> NoLoop]
    /\ endedHandlerRef = NoLoop
    /\ loops = [l \in LoopIds |-> IdleLoop]
    /\ video = [currentTime |-> 0, paused |-> TRUE, started |-> FALSE, endedEvent |-> FALSE]
    /\ session = IdleSession
    /\ \E config \in AiConfigs : ai = InitialAi(config)
    /\ mouse = InitialMouse
    /\ call = NoCall
    /\ calibration = InitialCalibration
    /\ knn = InitialKnn
    /\ loader = InitialLoader

AiNext ==
    \/ AiRunTracking
    \/ \E detections \in CandidateLists : AiProcessFrame(detections)
    \/ AiRunEnds
    \/ \E bbox \in Boxes : AiLockInstance(bbox)
    \/ AiUnlock
    \/ AiReset

AiSpec == AiInit /\ [][AiNext]_vars

Init == /\ store = InitialStore
        /\ method = "ai-object"
        /\ isTrackingRef = [d \in Detectors |-> FALSE]
        /\ abortControllerRef = [d \in Detectors |-> Null]
        /\ frameCallbackIdRef = [d \in PlaybackDriven |-> NoLoop]
        /\ endedHandlerRef = NoLoop
        /\ loops = [l \in LoopIds |-> IdleLoop]
        /\ video = [currentTime |-> 0, paused |-> TRUE, started |-> FALSE, endedEvent |-> FALSE]
        /\ session = IdleSession
        /\ ai = InitialAi(DefaultAiConfig)
        /\ mouse = InitialMouse
        /\ call = NoCall
        /\ calibration = InitialCalibration
        /\ knn = InitialKnn
        /\ loader = InitialLoader

\* video.pause()
pause(v) == [v EXCEPT !.paused = TRUE, !.started = FALSE]

RunEnded(S, phase) == [S EXCEPT !.session.phase = phase]

\* ------------------------------------- useColorTracker, useAiTracker, useKnnTracker
\* the finally block of runTracking; the invocation is over
Finally(S, l) == [S EXCEPT !.loops[l] = IdleLoop, !.isTrackingRef[S.loops[l].det] = FALSE, !.abortControllerRef[S.loops[l].det] = Null]

\* top of the for loop of runTracking: the loop condition, the cancellation
\* check, then the seek; after the last frame the results are saved
LoopTop(S, l) ==
    LET lp == S.loops[l]
    IN IF lp.frameNumber < TotalFrames
       THEN IF S.abortControllerRef[lp.det] = "aborted" \/ ~S.isTrackingRef[lp.det]
            THEN RunEnded(Finally([S EXCEPT !.store = setTrackingError(@, "Tracking cancelled")], l), "Cancelled")
            ELSE [S EXCEPT !.loops[l].pc = "seek", !.loops[l].timestamp = lp.frameNumber * TicksPerFrame, !.video.currentTime = lp.frameNumber * TicksPerFrame]
       ELSE RunEnded(Finally([S EXCEPT !.store = stopTracking(setTrackingProgress(setTrackingResults(@, lp.results), 100))], l), "Completed")

\* a catch block that forgets setTrackingError
CatchKeepingTracking(S, l, message) == RunEnded(Finally(S, l), "Failed")

\* the catch block of runTracking
Catch(S, l, message) == RunEnded(Finally([S EXCEPT !.store = setTrackingError(@, message)], l), "Failed")

\* the for loop's increment, then its top
NextIteration(S, l) == LoopTop([S EXCEPT !.loops[l].frameNumber = @ + S.loops[l].sampleStep], l)

\* AfterDetect with a frame without a detection left out of the results
AfterDetectSkippingNull(S, l, outcome) ==
    LET lp == S.loops[l]
        pushed == IF outcome \in {"throw", "null"} THEN lp.results ELSE Append(lp.results, FrameResult(lp.frameNumber, lp.timestamp, outcome))
        S1 == [S EXCEPT !.loops[l].results = pushed, !.loops[l].threw = @ \/ outcome = "throw", !.store = setTrackingProgress(@, Percent(lp.frameNumber + lp.sampleStep, TotalFrames))]
    IN IF lp.frameNumber % YieldEvery(lp.det) = 0
       THEN [S1 EXCEPT !.loops[l].pc = "yield"]
       ELSE NextIteration(S1, l)

\* rest of a loop iteration once the detector has answered: push the result
\* (processFrame of the AI tracker answers null when the model throws),
\* update the progress, yield to the browser or go on to the next frame
AfterDetect(S, l, outcome) ==
    LET lp == S.loops[l]
        pushed == IF outcome = "throw" THEN lp.results ELSE Append(lp.results, FrameResult(lp.frameNumber, lp.timestamp, outcome))
        S1 == [S EXCEPT !.loops[l].results = pushed, !.loops[l].threw = @ \/ outcome = "throw", !.store = setTrackingProgress(@, Percent(lp.frameNumber + lp.sampleStep, TotalFrames))]
    IN IF lp.frameNumber % YieldEvery(lp.det) = 0
       THEN [S1 EXCEPT !.loops[l].pc = "yield"]
       ELSE NextIteration(S1, l)

\* runTracking with startTracking() called ahead of the precondition checks
runTrackingStartingFirst(S, d, pre, step, l) ==
    IF pre # "ok"
    THEN [S EXCEPT !.store = setTrackingError(startTracking(@), PreconditionError(d, pre))]
    ELSE LET S1 == [S EXCEPT !.store = startTracking(@), !.isTrackingRef[d] = TRUE, !.abortControllerRef[d] = "fresh", !.loops[l] = [IdleLoop EXCEPT !.det = d, !.sampleStep = step, !.pc = "init"], !.video = pause(@), !.session = Started(S)]
         IN LoopTop(S1, l)

\* runTracking up to its first await
runTracking(S, d, pre, step, l) ==
    IF pre # "ok"
    THEN [S EXCEPT !.store = setTrackingError(@, PreconditionError(d, pre))]
    ELSE LET S1 == [S EXCEPT !.store = startTracking(@), !.isTrackingRef[d] = TRUE, !.abortControllerRef[d] = "fresh", !.loops[l] = [IdleLoop EXCEPT !.det = d, !.sampleStep = step, !.pc = "init"], !.video = pause(@), !.session = Started(S)]
         IN LoopTop(S1, l)

\* cancelTracking
cancelTracking(S, d) ==
    [S EXCEPT !.isTrackingRef[d] = FALSE,
              !.abortControllerRef[d] = IF @ = Null THEN Null ELSE "aborted",
              !.store = stopTracking(@),
              !.loops = [l \in LoopIds |-> IF @[l].det = d /\ ~@[l].cancelled THEN [@[l] EXCEPT !.cancelled = TRUE, !.resultsAtCancel = Len(S.loops[l].results)] ELSE @[l]]]

\* -------------------------------------------- useMouseTracker, usePoseTracker
\* an invocation has no continuation left; its locals live on while a video
\* listener of it can still call finishTracking
Die(S, l) ==
    IF S.loops[l].listening /\ ~S.loops[l].trackingFinished
    THEN [S EXCEPT !.loops[l].pc = "dormant"]
    ELSE [S EXCEPT !.loops[l] = IdleLoop,
                   !.frameCallbackIdRef = [d \in PlaybackDriven |-> IF @[d] = l THEN NoLoop ELSE @[d]],
                   !.endedHandlerRef = IF @ = l THEN NoLoop ELSE @]

Exit(S, l) == IF S.loops[l].pc = "idle" THEN S ELSE Die(S, l)

\* video.ended
VideoHasEnded(S) == S.video.currentTime >= DurationTicks

\* cancelVideoFrameCallback(frameCallbackIdRef.current): the callback the ref
\* names never runs if it was still pending
cancelFrameCallback(S, d) ==
    LET c == S.frameCallbackIdRef[d]
        S1 == [S EXCEPT !.frameCallbackIdRef[d] = NoLoop]
    IN IF c = NoLoop THEN S
       ELSE IF S.loops[c].pc \in {"rvfc", "rvfcDue"} THEN Die(S1, c) ELSE S1

\* removeEventListener of the handlers the refs name
removeListeners(S) ==
    LET h == S.endedHandlerRef
        S1 == [S EXCEPT !.endedHandlerRef = NoLoop, !.loops[h].listening = FALSE]
    IN IF h = NoLoop THEN S
       ELSE IF S.loops[h].pc = "dormant" THEN Die(S1, h) ELSE S1

\* finishTracking of the pose run l
finishTracking(S, l) ==
    IF S.loops[l].trackingFinished THEN S
    ELSE LET S1 == cancelFrameCallback(removeListeners([S EXCEPT !.loops[l].trackingFinished = TRUE]), "movenet-pose")
         IN [S1 EXCEPT !.video = pause(@),
                       !.store = stopTracking(setTrackingProgress(setTrackingResults(@, S.loops[l].results), 100)),
                       !.isTrackingRef["movenet-pose"] = FALSE,
                       !.session.phase = "Completed"]

\* failTracking of the pose run l
failTracking(S, l, message) ==
    IF S.loops[l].trackingFinished THEN S
    ELSE LET S1 == cancelFrameCallback(removeListeners([S EXCEPT !.loops[l].trackingFinished = TRUE]), "movenet-pose")
         IN [S1 EXCEPT !.video = pause(@),
                       !.store = stopTracking(setTrackingError(@, message)),
                       !.isTrackingRef["movenet-pose"] = FALSE,
                       !.session.phase = "Failed"]

\* a frame callback that finds the run cancelled pauses the video and returns
CancelledExit(S, l) ==
    LET S1 == [S EXCEPT !.video = pause(@)]
    IN Exit(IF S.loops[l].cancelled THEN RunEnded(S1, "Cancelled") ELSE S1, l)

\* duration - currentTime <= nearEndThreshold, in half ticks
NearEnd(t, sampleStep) == 2 * (DurationTicks - t) <= Max(2 * TicksPerFrame, 3 * sampleStep * TicksPerFrame)

\* end of processVideoFrame of the pose tracker: ask for the next frame
PoseContinue(S, l) ==
    IF S.isTrackingRef["movenet-pose"] /\ ~VideoHasEnded(S)
    THEN [S EXCEPT !.frameCallbackIdRef["movenet-pose"] = l, !.loops[l].pc = "rvfc"]
    ELSE IF S.isTrackingRef["movenet-pose"]
         THEN Exit(finishTracking(S, l), l)
         ELSE Exit(IF S.loops[l].cancelled THEN RunEnded(S, "Cancelled") ELSE S, l)

\* processVideoFrame of the pose tracker up to its await
poseProcessVideoFrame(S, l) ==
    LET lp == S.loops[l]
        t == S.video.currentTime
    IN IF ~S.isTrackingRef["movenet-pose"] THEN CancelledExit(S, l)
       ELSE IF VideoHasEnded(S) \/ NearEnd(t, lp.sampleStep) THEN Exit(finishTracking(S, l), l)
       ELSE IF lp.frameCount + 1 - lp.lastProcessedFrame >= lp.sampleStep
            THEN [S EXCEPT !.loops[l].frameCount = @ + 1, !.loops[l].lastProcessedFrame = lp.frameCount + 1, !.loops[l].timestamp = t, !.loops[l].frameNumber = t \div TicksPerFrame, !.loops[l].pc = "estimate"]
            ELSE PoseContinue([S EXCEPT !.loops[l].frameCount = @ + 1], l)

\* the rest of processVideoFrame of the pose tracker once processFrame has
\* answered (null when estimatePoses throws); throttleOpen: 200 ms have
\* passed since the last progress update
poseAfterEstimate(S, l, outcome, throttleOpen) ==
    LET lp == S.loops[l]
        pushed == IF outcome = "throw" THEN lp.results ELSE Append(lp.results, FrameResult(lp.frameNumber, lp.timestamp, outcome))
        S1 == [S EXCEPT !.loops[l].results = pushed, !.loops[l].threw = @ \/ outcome = "throw"]
        S2 == IF throttleOpen THEN [S1 EXCEPT !.store = setTrackingResults(setTrackingProgress(@, Percent(lp.timestamp, DurationTicks)), pushed)] ELSE S1
    IN PoseContinue(S2, l)

\* the completion block of the mouse tracker's processVideoFrame
mouseComplete(S, l) ==
    Exit([S EXCEPT !.video = pause(@),
                   !.store = stopTracking(setTrackingProgress(setTrackingResults(@, S.loops[l].results), 100)),
                   !.isTrackingRef["mouse-tracker"] = FALSE,
                   !.session.phase = "Completed"], l)

\* processVideoFrame of the mouse tracker
mouseProcessVideoFrame(S, l, throttleOpen) ==
    LET lp == S.loops[l]
        t == S.video.currentTime
        sampled == lp.frameCount + 1 - lp.lastProcessedFrame >= lp.sampleStep
        S1 == IF sampled
              THEN [S EXCEPT !.loops[l].frameCount = @ + 1, !.loops[l].lastProcessedFrame = lp.frameCount + 1, !.loops[l].timestamp = t, !.loops[l].frameNumber = t \div TicksPerFrame,
                             !.loops[l].results = Append(@, FrameResult(t \div TicksPerFrame, t, Detection(t \div TicksPerFrame))),
                             !.store = IF throttleOpen THEN setTrackingProgress(@, Percent(t, DurationTicks)) ELSE @]
              ELSE [S EXCEPT !.loops[l].frameCount = @ + 1]
    IN IF ~S.isTrackingRef["mouse-tracker"] THEN CancelledExit(S, l)
       ELSE IF VideoHasEnded(S) THEN mouseComplete(S, l)
       ELSE IF S1.isTrackingRef["mouse-tracker"] /\ ~VideoHasEnded(S1)
            THEN [S1 EXCEPT !.frameCallbackIdRef["mouse-tracker"] = l, !.loops[l].pc = "rvfc"]
            ELSE mouseComplete(S1, l)

\* runTracking of the mouse and pose trackers up to the seek wait; ready: the
\* video is at 0 with data to play, so that the pose tracker does not wait
playbackRunTracking(S, d, pre, step, ready, l) ==
    IF pre # "ok"
    THEN [S EXCEPT !.store = setTrackingError(@, PreconditionError(d, pre))]
    ELSE [S EXCEPT !.store = startTracking(@),
                   !.isTrackingRef[d] = TRUE,
                   !.loops[l] = [IdleLoop EXCEPT !.det = d, !.sampleStep = step, !.lastProcessedFrame = 0 - step, !.pc = IF d = "movenet-pose" /\ ready THEN "seeked" ELSE "seek"],
                   !.endedHandlerRef = IF d = "movenet-pose" THEN l ELSE @,
                   !.video.currentTime = 0,
                   !.session = Started(S)]

\* runTracking after `await video.play()`: the listeners (pose), the first
\* frame callback, and the finally block (mouse)
afterPlay(S, l) ==
    IF S.loops[l].det = "movenet-pose"
    THEN [S EXCEPT !.loops[l].listening = TRUE, !.loops[l].pc = "rvfc", !.frameCallbackIdRef["movenet-pose"] = l]
    ELSE [S EXCEPT !.loops[l].pc = "rvfc", !.isTrackingRef["mouse-tracker"] = FALSE, !.frameCallbackIdRef["mouse-tracker"] = NoLoop]

\* the catch block of runTracking of the mouse and pose trackers
playbackCatch(S, l, message) ==
    IF S.loops[l].det = "movenet-pose"
    THEN Exit(failTracking(S, l, message), l)
    ELSE Exit([S EXCEPT !.store = setTrackingError(@, message), !.video = pause(@), !.isTrackingRef["mouse-tracker"] = FALSE, !.frameCallbackIdRef["mouse-tracker"] = NoLoop, !.session.phase = "Failed"], l)

\* cancelTracking of the mouse and pose trackers
playbackCancelTracking(S, d) ==
    LET S0 == [S EXCEPT !.isTrackingRef[d] = FALSE,
                        !.loops = [l \in LoopIds |-> IF @[l].det = d /\ ~@[l].cancelled THEN [@[l] EXCEPT !.cancelled = TRUE, !.resultsAtCancel = Len(S.loops[l].results)] ELSE @[l]]]
        c == S0.frameCallbackIdRef[d]
        killed == c # NoLoop /\ S0.loops[c].pc \in {"rvfc", "rvfcDue"}
        S1 == cancelFrameCallback(S0, d)
        S2 == IF d = "movenet-pose" THEN [removeListeners(S1) EXCEPT !.video = pause(@)] ELSE S1
        S3 == [S2 EXCEPT !.store = stopTracking(@)]
    IN IF killed THEN RunEnded(S3, "Cancelled") ELSE S3

\* ------------------------------------------------------- TrackingControls
\* handleStartTracking: the Start / Re-run button, rendered while the store
\* is not tracking
HandleStartTracking(pre, step, ready) ==
    /\ MicrotasksDone
    /\ ~store.isTracking
    /\ pre \in Preconditions(method)
    /\ \A k \in LoopIds : Active(k) => method \in SeekDriven /\ loops[k].det \in SeekDriven
    /\ \E l \in LoopIds :
         /\ FreeSlot(l)
         /\ IF method \in SeekDriven
            THEN ready /\ Becomes(runTracking(Cur, method, pre, step, l))
            ELSE (pre = "ok" \/ ready) /\ Becomes(playbackRunTracking(Cur, method, pre, step, ready, l))

\* handleStopTracking: the Stop button, rendered while tracking
HandleStopTracking ==
    /\ MicrotasksDone
    /\ store.isTracking
    /\ IF method \in SeekDriven
       THEN Becomes(cancelTracking(Cur, method))
       ELSE Becomes(playbackCancelTracking(Cur, method))

\* the Reset button, rendered when there is data and no run
HandleReset ==
    /\ MicrotasksDone
    /\ ~store.isTracking
    /\ hasTrackingData(store)
    /\ Becomes([Cur EXCEPT !.store = resetTracking(@), !.session = IdleSession])

\* the method selector buttons, disabled while tracking
UpdateMethod(m) ==
    /\ MicrotasksDone
    /\ ~store.isTracking
    /\ m # method
    /\ Becomes([Cur EXCEPT !.method = m])

\* ------------------------------------------------------------- the video
\* the 'seeked' event: every pending seek wait is resolved
VideoSeeked ==
    /\ MicrotasksDone
    /\ \E l \in LoopIds : loops[l].pc = "seek"
    /\ Becomes([Cur EXCEPT !.loops = [l \in LoopIds |-> IF @[l].pc = "seek" THEN [@[l] EXCEPT !.pc = "seeked"] ELSE @[l]]])

\* handlePlaybackError of every pose run that listens, in turn; a run whose
\* pose estimation is in flight goes on when the estimation comes back
RECURSIVE PlaybackErrors(_, _)
PlaybackErrors(S, ls) ==
    IF ls = {} THEN S
    ELSE LET l == CHOOSE k \in ls : \A j \in ls : k <= j
         IN PlaybackErrors(IF ~S.loops[l].listening THEN S
                             ELSE IF S.loops[l].pc = "estimate" THEN failTracking(S, l, "Video playback error")
                             ELSE Exit(failTracking(S, l, "Video playback error"), l), ls \ {l})

\* the 'error' event: every pending seek wait that listens for it is
\* rejected, and the playback error handlers run
VideoError ==
    /\ MicrotasksDone
    /\ \/ \E l \in LoopIds : loops[l].pc = "seek" /\ loops[l].det # "mouse-tracker"
       \/ ~video.paused /\ \E l \in LoopIds : loops[l].listening
    /\ Becomes(PlaybackErrors([Cur EXCEPT !.loops = [l \in LoopIds |-> IF @[l].pc = "seek" /\ @[l].det # "mouse-tracker" THEN [@[l] EXCEPT !.pc = "seekError"] ELSE @[l]]], LoopIds))

\* playback presents a frame, the one at the current position when playback
\* has just started and else the next one: every pending frame callback
\* becomes due
VideoFrame ==
    /\ MicrotasksDone
    /\ ~video.paused
    /\ \A l \in LoopIds : loops[l].pc # "seek"
    /\ video.started \/ video.currentTime < DurationTicks
    /\ Becomes([Cur EXCEPT !.video.currentTime = IF video.started THEN @ ELSE @ + 1,
                           !.video.started = FALSE,
                           !.video.endedEvent = @ \/ (~video.started /\ video.currentTime + 1 = DurationTicks),
                           !.loops = [l \in LoopIds |-> IF @[l].pc = "rvfc" THEN [@[l] EXCEPT !.pc = "rvfcDue"] ELSE @[l]]])

\* finishTracking of every pose run that listens, in turn; a run whose pose
\* estimation is in flight goes on when the estimation comes back
RECURSIVE EndedHandlers(_, _)
EndedHandlers(S, ls) ==
    IF ls = {} THEN S
    ELSE LET l == CHOOSE k \in ls : \A j \in ls : k <= j
         IN EndedHandlers(IF ~S.loops[l].listening THEN S
                            ELSE IF S.loops[l].pc = "estimate" THEN finishTracking(S, l)
                            ELSE Exit(finishTracking(S, l), l), ls \ {l})

\* the 'ended' event
VideoEnded ==
    /\ MicrotasksDone
    /\ video.endedEvent
    /\ Becomes(EndedHandlers([Cur EXCEPT !.video.endedEvent = FALSE], LoopIds))

\* ------------------------------------------------ continuations of the loops
\* the 5 second timer of a seek wait fires before the seek has ended
SeekTimeout(l) ==
    /\ MicrotasksDone
    /\ loops[l].pc = "seek"
    /\ loops[l].det # "mouse-tracker"
    /\ IF loops[l].det \in SeekDriven
       THEN Becomes(Catch(Cur, l, "Seek timeout"))
       ELSE Becomes(playbackCatch(Cur, l, "Seek timeout"))

\* a seek wait was rejected by the 'error' event
SeekFailed(l) ==
    /\ loops[l].pc = "seekError"
    /\ IF loops[l].det \in SeekDriven
       THEN Becomes(Catch(Cur, l, "Seek failed"))
       ELSE Becomes(playbackCatch(Cur, l, "Seek failed"))

\* AfterSeek with the detector of the AI and KNN trackers called without
\* being awaited: the loop goes on while the call is in flight
AfterSeekNotAwaiting(l) ==
    /\ loops[l].pc = "seeked"
    /\ IF loops[l].det = "brightness"
       THEN Becomes(AfterDetect(Cur, l, Detection(loops[l].frameNumber)))
       ELSE IF loops[l].det \in SeekDriven
            THEN Becomes(NextIteration(Cur, l))
            ELSE Becomes([Cur EXCEPT !.loops[l].pc = "play", !.video.paused = FALSE, !.video.started = Cur.video.paused \/ @, !.video.currentTime = IF @ >= DurationTicks THEN 0 ELSE @])

\* a seek wait was resolved: the brightness tracker detects synchronously,
\* the AI and KNN trackers await their model, the mouse and pose trackers
\* call video.play()
AfterSeek(l) ==
    /\ loops[l].pc = "seeked"
    /\ IF loops[l].det = "brightness"
       THEN Becomes(AfterDetect(Cur, l, Detection(loops[l].frameNumber)))
       ELSE IF loops[l].det \in SeekDriven
            THEN Becomes([Cur EXCEPT !.loops[l].pc = "detect"])
            ELSE Becomes([Cur EXCEPT !.loops[l].pc = "play", !.video.paused = FALSE, !.video.started = Cur.video.paused \/ @, !.video.currentTime = IF @ >= DurationTicks THEN 0 ELSE @])

\* processFrame (AI) / searchForTarget (KNN) comes back
DetectReturns(l, outcome) ==
    /\ MicrotasksDone
    /\ loops[l].pc = "detect"
    /\ outcome \in DetectOutcomes(loops[l].det, loops[l].frameNumber)
    /\ Becomes(AfterDetect(Cur, l, outcome))

\* the setTimeout(0) of the yield fires
YieldReturns(l) ==
    /\ MicrotasksDone
    /\ loops[l].pc = "yield"
    /\ Becomes(NextIteration(Cur, l))

\* the promise of video.play() is fulfilled
PlayResolved(l) ==
    /\ MicrotasksDone
    /\ loops[l].pc = "play"
    /\ Becomes(afterPlay(Cur, l))

\* the promise of video.play() is rejected
PlayRejected(l) ==
    /\ MicrotasksDone
    /\ loops[l].pc = "play"
    /\ Becomes(playbackCatch(Cur, l, "The play() request was interrupted"))

\* a due frame callback runs
FrameCallback(l, throttleOpen) ==
    /\ loops[l].pc = "rvfcDue"
    /\ IF loops[l].det = "movenet-pose"
       THEN throttleOpen /\ Becomes(poseProcessVideoFrame(Cur, l))
       ELSE Becomes(mouseProcessVideoFrame(Cur, l, throttleOpen))

\* processFrame of the pose tracker comes back
EstimateReturns(l, outcome, throttleOpen) ==
    /\ MicrotasksDone
    /\ loops[l].pc = "estimate"
    /\ outcome \in DetectOutcomes(loops[l].det, loops[l].frameNumber)
    /\ Becomes(poseAfterEstimate(Cur, l, outcome, throttleOpen))

Next ==
    \/ \E pre \in {"ok", "noVideo", "noModel", "noTargetClass", "notTrained", "noBackground"}, step \in 1..MaxSampleStep, ready \in BOOLEAN : HandleStartTracking(pre, step, ready)
    \/ HandleStopTracking
    \/ HandleReset
    \/ \E m \in Detectors : UpdateMethod(m)
    \/ VideoSeeked
    \/ VideoError
    \/ VideoFrame
    \/ VideoEnded
    \/ \E l \in LoopIds : SeekTimeout(l)
    \/ \E l \in LoopIds : SeekFailed(l)
    \/ \E l \in LoopIds : AfterSeek(l)
    \/ \E l \in LoopIds, outcome \in {"point", "null", "throw"} : DetectReturns(l, outcome)
    \/ \E l \in LoopIds : YieldReturns(l)
    \/ \E l \in LoopIds : PlayResolved(l)
    \/ \E l \in LoopIds : PlayRejected(l)
    \/ \E l \in LoopIds, throttleOpen \in BOOLEAN : FrameCallback(l, throttleOpen)
    \/ \E l \in LoopIds, outcome \in {"point", "null", "throw"}, throttleOpen \in BOOLEAN : EstimateReturns(l, outcome, throttleOpen)

Spec == Init /\ [][Next]_vars

TypeOK ==
    /\ store.isTracking \in BOOLEAN
    /\ store.trackingProgress \in 0..100
    /\ method \in Detectors
    /\ \A d \in PlaybackDriven : frameCallbackIdRef[d] \in LoopIds \cup {NoLoop}
    /\ endedHandlerRef \in LoopIds \cup {NoLoop}
    /\ video.currentTime \in 0..DurationTicks

\* ------------------------------------------------------------ properties
\* a step of loop l's own code (not an event that only wakes it, nor a
\* cancelTracking that only flags it)
OwnStep(l) ==
    /\ loops'[l] # loops[l]
    /\ ~(loops[l].pc = "seek" /\ loops'[l].pc \in {"seeked", "seekError"})
    /\ ~(loops[l].pc = "rvfc" /\ loops'[l].pc = "rvfcDue")
    /\ loops'[l] # [loops[l] EXCEPT !.cancelled = TRUE, !.resultsAtCancel = Len(loops[l].results)]

\* a step in which a run is started
RunStarts == \E l \in LoopIds : loops[l].pc = "idle" /\ loops'[l].pc # "idle"

\* C1: the result sequence committed to the store is in strictly increasing
\* frameNumber order, for every detector
C1_StrictlyIncreasing == \A i \in 1..(Len(store.results) - 1) : store.results[i].frameNumber < store.results[i + 1].frameNumber

\* C2: when a run that was cancelled after k >= 1 frames ends as Cancelled,
\* the store's results hold the k results accumulated before the cancellation
C2_CancelKeepsResults ==
    [][\A l \in LoopIds :
         (loops[l].cancelled /\ loops[l].resultsAtCancel >= 1 /\ OwnStep(l) /\ loops'[l].pc = "idle" /\ session'.phase = "Cancelled")
         => /\ Len(store'.results) >= loops[l].resultsAtCancel
            /\ SubSeq(store'.results, 1, loops[l].resultsAtCancel) = SubSeq(loops[l].results, 1, loops[l].resultsAtCancel)]_vars

\* C3: when a seek fails or times out after k >= 1 frames, the loop aborts,
\* the session leaves Running with the cause's message as error, and the k
\* results are in the store
C3_SeekFailureKeepsResults ==
    [][\A l \in LoopIds :
         (loops[l].pc \in {"seek", "seekError"} /\ ~loops[l].cancelled /\ Len(loops[l].results) >= 1 /\ OwnStep(l) /\ session'.phase = "Failed")
         => /\ loops'[l].pc = "idle"
            /\ ~store'.isTracking
            /\ store'.error = (IF loops[l].pc = "seek" THEN "Seek timeout" ELSE "Seek failed")
            /\ store'.results = loops[l].results]_vars

\* C4: once a run has completed, isTrackingComplete() holds whenever there is
\* at least one result
C4_CompleteStaysComplete == (session.phase = "Completed" /\ Len(store.results) > 0) => isTrackingComplete(store)

\* C5: the frame loop of a mouse-tracker run that was never cancelled stops
\* only at the end of the video, and then the results are committed, the
\* progress is 100 and isTracking is false
C5_MouseRunsToTheEnd ==
    [][\A l \in LoopIds :
         (loops[l].det = "mouse-tracker" /\ loops[l].pc = "rvfcDue" /\ ~loops[l].cancelled /\ loops'[l].pc = "idle")
         => /\ video.currentTime >= DurationTicks
            /\ store'.results = loops[l].results
            /\ store'.trackingProgress = 100
            /\ ~store'.isTracking]_vars

\* C6: a cancelled loop that resumes while a newer run is under way processes
\* no further frame, writes nothing to the store and does not stop the new run
C6_CancelledLoopIsInert ==
    [][\A l, k \in LoopIds :
         (loops[l].cancelled /\ OwnStep(l) /\ k # l /\ Active(k) /\ ~loops[k].cancelled)
         => /\ loops'[l].pc = "idle"
            /\ store' = store
            /\ isTrackingRef'[loops[k].det] = isTrackingRef[loops[k].det]
            /\ abortControllerRef'[loops[k].det] = abortControllerRef[loops[k].det]]_vars

\* C7 as stated: no run is started from a session that has ended and has not
\* been reset
C7_StartsOnlyFromIdle == [][~(session.phase \in Ended /\ RunStarts)]_vars

\* C7: a run is started only while the store is not tracking, from Idle or
\* from an ended session without a reset, and the start itself clears the
\* results, the progress and the error
C7_StartClears ==
    [][RunStarts => /\ ~store.isTracking
                    /\ store'.isTracking
                    /\ store'.results = <<>>
                    /\ store'.trackingProgress = 0
                    /\ store'.error = Null
                    /\ session'.phase = "Running"]_vars

\* a run that was started from an ended session that had not been reset
C7_Witness == session.phase = "Running" /\ session.rerun /\ store.isTracking /\ store.results = <<>>

\* C8: when a run ends as Cancelled, the error is null
C8_CancelIsNoError == [][(session'.phase = "Cancelled" /\ session.phase # "Cancelled") => store'.error = Null]_vars

\* C9: no run goes on after its detection model or pose estimator has thrown
C9_ThrowAborts == \A l \in LoopIds : ~loops[l].threw

\* C10: a runTracking whose precondition fails reports it in error, before
\* any frame is requested, with isTracking false and the stored results and
\* progress as they were
C10_RejectedStart ==
    [][(store'.error \in PreconditionErrors /\ store'.error # store.error)
       => /\ ~store.isTracking
          /\ ~store'.isTracking
          /\ store'.results = store.results
          /\ store'.trackingProgress = store.trackingProgress
          /\ loops' = loops
          /\ video' = video
          /\ session' = session]_vars

\* a start was rejected after a completed run, whose results are still there
C10_Witness == store.error \in PreconditionErrors /\ ~store.isTracking /\ Len(store.results) > 0 /\ store.trackingProgress = 100

\* C11: right after a runTracking that passed its precondition checks the
\* session is Running with empty results, progress 0 and no error, and the
\* run is at the request of its first frame
C11_StartedClean ==
    session.started =>
        /\ session.phase = "Running"
        /\ store = [isTracking |-> TRUE, trackingProgress |-> 0, results |-> <<>>, error |-> Null]
        /\ \E l \in LoopIds : loops[l].pc \in {"seek", "seeked"} /\ loops[l].frameNumber = 0 /\ loops[l].frameCount = 0 /\ loops[l].results = <<>>

\* a run was started on a session that held results, progress and an error
C11_Witness == session.started /\ session.cleared /\ store.results = <<>> /\ store.error = Null

\* C12: when the brightness or KNN detector of a run finds no subject in a
\* frame, a result with centerOfMass null is appended for it, no error is
\* set and the run goes on with the next sampled frame (or completes after
\* the last one)
C12_NoDetectionIsNoFailure ==
    [][\A l \in LoopIds :
         LET lp == loops[l]
             appended == Append(lp.results, FrameResult(lp.frameNumber, lp.timestamp, "null"))
         IN (/\ lp.det \in {"brightness", "knn-custom"}
             /\ lp.pc = (IF lp.det = "brightness" THEN "seeked" ELSE "detect")
             /\ ~SubjectVisible(lp.frameNumber)
             /\ ~lp.cancelled
             /\ \A k \in LoopIds \ {l} : ~Active(k)
             /\ OwnStep(l))
            => /\ store'.error = store.error
               /\ IF lp.frameNumber + lp.sampleStep < TotalFrames
                  THEN /\ loops'[l].results = appended
                       /\ loops'[l].pc \in {"yield", "seek"}
                       /\ store'.isTracking = store.isTracking
                  ELSE \/ loops'[l].results = appended /\ loops'[l].pc = "yield"
                       \/ loops'[l].pc = "idle" /\ store'.results = appended /\ session'.phase = "Completed"]_vars

\* a run has appended a result without a position for its first frame and
\* is at the seek of the next sampled frame, with no error
C12_Witness ==
    \E l \in LoopIds :
        /\ loops[l].det \in {"brightness", "knn-custom"}
        /\ loops[l].pc = "seek"
        /\ loops[l].frameNumber = 1
        /\ loops[l].results = <<FrameResult(0, 0, "null")>>
        /\ store.isTracking
        /\ store.error = Null

\* the results of a run over every sampled frame 0, s, 2s, ... below
\* TotalFrames, each at the timestamp of its frame
SampledResults(sampleStep) ==
    [i \in 1..((TotalFrames + sampleStep - 1) \div sampleStep) |->
        FrameResult((i - 1) * sampleStep, (i - 1) * sampleStep * TicksPerFrame, Detection((i - 1) * sampleStep))]

\* C13: a seek-driven run that completes leaves in the store exactly one
\* result for each sampled frame number 0, s, 2s, ... with the timestamp of
\* that frame
C13_CompletedHasEverySampledFrame ==
    [][\A l \in LoopIds :
         (/\ loops[l].det \in SeekDriven
          /\ ~loops[l].cancelled
          /\ \A k \in LoopIds \ {l} : ~Active(k)
          /\ OwnStep(l)
          /\ loops'[l].pc = "idle"
          /\ session'.phase = "Completed")
         => store'.results = SampledResults(loops[l].sampleStep)]_vars

\* C14: within a run the frames are processed one at a time and in
\* increasing order: while a loop waits for a frame (its seek or its frame
\* callback) or for the detector, every result it holds is of an earlier
\* frame, and unless the model threw, the result of every frame before the
\* one it waits for has been appended
C14_OneFrameAtATime ==
    \A l \in LoopIds :
        LET lp == loops[l]
            n == Len(lp.results)
            f == lp.frameNumber
        IN /\ \A i \in 1..(n - 1) : lp.results[i].timestamp < lp.results[i + 1].timestamp
           /\ (lp.det \in SeekDriven /\ lp.pc \in {"seek", "seeked", "seekError", "detect"}) =>
                 /\ f % lp.sampleStep = 0
                 /\ \A i \in 1..n : lp.results[i].frameNumber < f
                 /\ ~lp.threw => n = f \div lp.sampleStep
           /\ (lp.det \in SeekDriven /\ lp.pc = "yield") =>
                 /\ \A i \in 1..n : lp.results[i].frameNumber <= f
                 /\ ~lp.threw => n = f \div lp.sampleStep + 1 /\ lp.results[n].frameNumber = f
           /\ (lp.det = "movenet-pose" /\ lp.pc = "estimate") =>
                 \A i \in 1..n : lp.results[i].timestamp < lp.timestamp
           /\ (lp.det = "movenet-pose" /\ lp.pc \in {"rvfc", "rvfcDue"} /\ lp.lastProcessedFrame >= 1) =>
                 /\ \A i \in 1..n : lp.results[i].timestamp <= lp.timestamp
                 /\ ~lp.threw => n > 0 /\ lp.results[n].timestamp = lp.timestamp

C14_Witness ==
    \E l \in LoopIds : /\ loops[l].det = "ai-object"
                       /\ loops[l].pc = "detect"
                       /\ loops[l].frameNumber = 1
                       /\ Len(loops[l].results) = 1
                       /\ ~loops[l].threw

\* C15: after cancelTracking a seek-driven loop finishes at most the frame
\* that is in flight and exits at its next check: it never requests a
\* further frame
C15_CancelledLoopSeeksNoMore ==
    [][\A l \in LoopIds :
         (loops[l].det \in SeekDriven /\ loops[l].cancelled /\ OwnStep(l))
         => \/ loops'[l].pc = "idle"
            \/ loops'[l].frameNumber = loops[l].frameNumber /\ loops'[l].pc # "seek"]_vars

\* a step in which the AI run processes a frame
AiFrameStep == ai'.frames = ai.frames + 1

\* C16: with a last accepted box and a lost-frame tolerance T, a frame
\* without a candidate reports the last known box (its center as position,
\* score 0) while fewer than T frames have been lost, and null after that
C16_LostFrameTolerance ==
    [][(AiFrameStep /\ ai'.detections = <<>> /\ ai.store.lastAiBox # NoBox)
       => IF ai.store.lostCount < ai.config.aiLostFrameTolerance
          THEN ai'.result = BoxResult(ai.store.lastAiBox, 0)
          ELSE ai'.result = NullResult]_vars

\* C17: a selected candidate farther than aiMaxJumpPx from the last accepted
\* box is rejected: the result reports the last accepted box and its center
\* with score 0, and the last accepted box stays as it is
C17_AntiJump ==
    [][(/\ AiFrameStep
        /\ ai'.selected # NoDetection
        /\ ai.store.lastAiBox # NoBox
        /\ ai.config.aiMaxJumpPx > 0
        /\ bboxDistance(ai'.selected.bbox, ai.store.lastAiBox) > 2 * ai.config.aiMaxJumpPx)
       => /\ ai'.result = BoxResult(ai.store.lastAiBox, 0)
          /\ ai'.store.lastAiBox = ai.store.lastAiBox
          /\ ai'.store.lastAiBoxSource = ai.store.lastAiBoxSource]_vars

\* C18: a frame without a candidate that takes the lost counter beyond the
\* tolerance clears the lock and the last known box; while there is no last
\* known box a frame without a candidate reports null; accepting a
\* detection makes it the last accepted box and sets the lost counter to 0
C18_LostTargetIsCleared ==
    [][AiFrameStep =>
         /\ (ai'.detections = <<>> /\ ai.store.lostCount >= ai.config.aiLostFrameTolerance)
               => ai'.store.lastAiBox = NoBox /\ ai'.store.lastAiBoxSource = "auto" /\ ai'.result = NullResult
         /\ (ai'.detections = <<>> /\ ai.store.lastAiBox = NoBox)
               => ai'.result = NullResult
         /\ (ai'.selected # NoDetection /\ ai'.result = BoxResult(ai'.selected.bbox, ai'.selected.score))
               => ai'.store.lastAiBox = ai'.selected.bbox /\ ai'.store.lostCount = 0]_vars

\* C19: while a box is locked by the user a frame selects the candidate of
\* the largest IoU with the locked box and an accepted detection keeps the
\* lock; without a lock a frame selects by the strategy and does not
\* establish a lock
C19_UserLock ==
    [][(AiFrameStep /\ Len(ai'.detections) > 0)
       => IF ai.store.lastAiBoxSource = "user" /\ ai.store.lastAiBox # NoBox
          THEN /\ ai'.selected = selectByIoU(ai'.detections, ai.store.lastAiBox)
               /\ ai'.store.lastAiBoxSource = "user"
          ELSE /\ \E previousBox \in Boxes \cup {NoBox} : ai'.selected = selectBestDetection(ai'.detections, ai.config.aiTrackStrategy, previousBox)
               /\ ai'.store.lastAiBoxSource = "auto"]_vars

\* C20: the start of a run resets the continuity state of the AI detector
\* that the frames of an earlier run have left: the first frame sees no
\* last known box and a lost counter of 0
C20_StartResetsContinuity ==
    [][(~ai.running /\ ai'.running /\ ai.store.lastAiBoxSource = "auto")
       => ai'.closure.lastAiBox = NoBox /\ ai'.closure.lostCount = 0]_vars

\* ------------------------------------------------------ colorDetection.ts
\* every step of a specification that follows one library call
CallBecomes(c) ==
    /\ call' = c
    /\ UNCHANGED <<store, method, isTrackingRef, abortControllerRef, frameCallbackIdRef, endedHandlerRef, loops, video, session, ai, mouse, calibration, knn, loader>>

\* the session, the AI detector and the mouse tracker as they are created
Untouched ==
    /\ store = InitialStore
    /\ method = "ai-object"
    /\ isTrackingRef = [d \in Detectors |-> FALSE]
    /\ abortControllerRef = [d \in Detectors |-> Null]
    /\ frameCallbackIdRef = [d \in PlaybackDriven |-> NoLoop]
    /\ endedHandlerRef = NoLoop
    /\ loops = [l \in LoopIds |-> IdleLoop]
    /\ video = [currentTime |-> 0, paused |-> TRUE, started |-> FALSE, endedEvent |-> FALSE]
    /\ session = IdleSession
    /\ ai = InitialAi(DefaultAiConfig)
    /\ mouse = InitialMouse
    /\ calibration = InitialCalibration
    /\ knn = InitialKnn
    /\ loader = InitialLoader

\* a quotient n / d that is kept exact
Ratio(n, d) == <<n, d>>

\* centerOfMass: null
NoPoint == [x |-> Ratio(0 - 1, 1), y |-> Ratio(0 - 1, 1)]

\* ImageData of one row: data[x] is the pixel (r, g, b) at x
Images == [width : {ImageWidth}, height : {1}, data : [0..(ImageWidth - 1) -> [r : 0..MaxChannel, g : 0..MaxChannel, b : 0..MaxChannel]]]

\* DetectionConfig; the slider of minPixelCount starts at 1
DetectionConfigs == [brightnessThreshold : 0..MaxChannel, minPixelCount : 1..MaxMinPixelCount]

\* calculateBrightness, in thirds: (r + g + b) / 3
calculateBrightness(r, g, b) == r + g + b

\* the pixel loop of detectBrightObjects from index i on, over the sums so far
RECURSIVE BrightPixels(_, _, _, _)
BrightPixels(imageData, config, i, acc) ==
    IF i >= imageData.width * imageData.height THEN acc
    ELSE LET x == i % imageData.width
             y == i \div imageData.width
             p == imageData.data[i]
             brightness == calculateBrightness(p.r, p.g, p.b)
         IN BrightPixels(imageData, config, i + 1,
                IF brightness >= 3 * config.brightnessThreshold
                THEN [sumX |-> acc.sumX + x, sumY |-> acc.sumY + y, count |-> acc.count + 1, totalBrightness |-> acc.totalBrightness + brightness]
                ELSE acc)

detectBrightObjects(imageData, config) ==
    LET acc == BrightPixels(imageData, config, 0, [sumX |-> 0, sumY |-> 0, count |-> 0, totalBrightness |-> 0])
    IN IF acc.count >= config.minPixelCount
       THEN [centerOfMass |-> [x |-> Ratio(acc.sumX, acc.count), y |-> Ratio(acc.sumY, acc.count)],
             pixelCount |-> acc.count,
             brightnessAverage |-> Ratio(acc.totalBrightness, 3 * acc.count)]
       ELSE [centerOfMass |-> NoPoint,
             pixelCount |-> acc.count,
             brightnessAverage |-> IF acc.count > 0 THEN Ratio(acc.totalBrightness, 3 * acc.count) ELSE Ratio(0, 1)]

BrightInit ==
    /\ Untouched
    /\ \E imageData \in Images, config \in DetectionConfigs :
         call = [fn |-> "detectBrightObjects", returned |-> FALSE, imageData |-> imageData, config |-> config]

\* useColorTracker.processFrame gets the answer of detectBrightObjects
ReturnDetectBrightObjects ==
    /\ call.fn = "detectBrightObjects"
    /\ ~call.returned
    /\ CallBecomes([fn |-> "detectBrightObjects", returned |-> TRUE, imageData |-> call.imageData, config |-> call.config, result |-> detectBrightObjects(call.imageData, call.config)])

BrightNext == ReturnDetectBrightObjects

BrightSpec == BrightInit /\ [][BrightNext]_vars

\* C21: the position of a result of the brightness detector is null if and
\* only if its pixelCount is 0
C21_NullIffNoPixels ==
    (call.fn = "detectBrightObjects" /\ call.returned)
        => (call.result.centerOfMass = NoPoint <=> call.result.pixelCount = 0)

\* ------------------------------------------- useMouseTracker: erode
\* the sets of at most n elements of S
RECURSIVE SmallSubsets(_, _)
SmallSubsets(S, n) ==
    IF n = 0 THEN {{}}
    ELSE LET smaller == SmallSubsets(S, n - 1)
         IN smaller \cup {T \cup {e} : T \in smaller, e \in S}

\* binary masks (Uint8Array of 0 and 255, row by row) of the grid
GridMasks ==
    LET cells == 0..(GridWidth * GridHeight - 1)
    IN UNION {{[i \in cells |-> IF i \in H THEN 0 ELSE 255], [i \in cells |-> IF i \in H THEN 255 ELSE 0]} : H \in SmallSubsets(cells, MaxHoles)}

\* erode that keeps a pixel when it or one of its neighbours is foreground
erodeAnyNeighbour(binary, width, height) ==
    [idx \in DOMAIN binary |->
        LET x == idx % width
            y == idx \div width
        IN IF y >= 1 /\ y < height - 1 /\ x >= 1 /\ x < width - 1
           THEN IF binary[idx] # 0 \/ binary[(y - 1) * width + x] # 0 \/ binary[(y + 1) * width + x] # 0
                   \/ binary[y * width + (x - 1)] # 0 \/ binary[y * width + (x + 1)] # 0
                THEN 255 ELSE 0
           ELSE 0]

\* erode: 3x3 cross; the border of the result stays 0
erode(binary, width, height) ==
    [idx \in DOMAIN binary |->
        LET x == idx % width
            y == idx \div width
        IN IF y >= 1 /\ y < height - 1 /\ x >= 1 /\ x < width - 1
           THEN IF binary[idx] # 0 /\ binary[(y - 1) * width + x] # 0 /\ binary[(y + 1) * width + x] # 0
                   /\ binary[y * width + (x - 1)] # 0 /\ binary[y * width + (x + 1)] # 0
                THEN 255 ELSE 0
           ELSE 0]

ErodeInit ==
    /\ Untouched
    /\ \E binary \in GridMasks :
         call = [fn |-> "erode", returned |-> FALSE, binary |-> binary, width |-> GridWidth, height |-> GridHeight, result |-> binary]

\* processFrame gets the eroded mask, and erodes it once more
ReturnErode ==
    /\ call.fn = "erode"
    /\ ~call.returned
    /\ CallBecomes([call EXCEPT !.returned = TRUE, !.result = erode(call.binary, call.width, call.height)])

ErodeNext == ReturnErode

ErodeSpec == ErodeInit /\ [][ErodeNext]_vars

\* the foreground of mask a lies within the foreground of mask b
MaskSubset(a, b) == \A i \in DOMAIN a : a[i] # 0 => b[i] # 0

\* C25: erosion only shrinks: erode(erode(x)) is a subset of erode(x), which
\* is a subset of x, and a pixel survives only if it and its four
\* 4-connected neighbours are all foreground
C25_ErosionShrinks ==
    (call.fn = "erode" /\ call.returned) =>
        /\ MaskSubset(call.result, call.binary)
        /\ MaskSubset(erode(call.result, call.width, call.height), call.result)
        /\ \A i \in DOMAIN call.result :
             call.result[i] # 0 =>
                \A j \in {i, i - 1, i + 1, i - call.width, i + call.width} : j \in DOMAIN call.binary /\ call.binary[j] # 0

\* an erosion whose second application still leaves foreground
C25_Witness ==
    /\ call.fn = "erode"
    /\ call.returned
    /\ \E i \in DOMAIN call.result : erode(call.result, call.width, call.height)[i] # 0
    /\ \E i \in DOMAIN call.binary : call.binary[i] = 0

\* ------------------------------------------- useMouseTracker: findBlobs
\* the masks whose foreground is the union of two rectangles
BlobMasks ==
    LET cells == 0..(BlobGridWidth * BlobGridHeight - 1)
        Rects == {<<x0, x1, y0, y1>> \in (0..(BlobGridWidth - 1)) \X (0..(BlobGridWidth - 1)) \X (0..(BlobGridHeight - 1)) \X (0..(BlobGridHeight - 1)) : x0 <= x1 /\ y0 <= y1}
        In(i, r) == i % BlobGridWidth >= r[1] /\ i % BlobGridWidth <= r[2] /\ i \div BlobGridWidth >= r[3] /\ i \div BlobGridWidth <= r[4]
    IN {[i \in cells |-> IF In(i, a) \/ In(i, b) THEN 255 ELSE 0] : a \in Rects, b \in Rects}

\* the while loop of floodFill: the stack, the visited array and the sums
RECURSIVE FloodLoop(_, _, _, _, _, _)
FloodLoop(binary, width, height, stack, visited, acc) ==
    IF Len(stack) = 0 THEN [visited |-> visited, acc |-> acc]
    ELSE LET top == stack[Len(stack)]
             rest == SubSeq(stack, 1, Len(stack) - 1)
             x == top[1]
             y == top[2]
             idx == y * width + x
         IN IF visited[idx] # 0 \/ binary[idx] = 0
            THEN FloodLoop(binary, width, height, rest, visited, acc)
            ELSE FloodLoop(binary, width, height,
                     rest \o (IF x > 0 THEN <<(<<x - 1, y>>)>> ELSE <<>>)
                          \o (IF x < width - 1 THEN <<(<<x + 1, y>>)>> ELSE <<>>)
                          \o (IF y > 0 THEN <<(<<x, y - 1>>)>> ELSE <<>>)
                          \o (IF y < height - 1 THEN <<(<<x, y + 1>>)>> ELSE <<>>),
                     [visited EXCEPT ![idx] = 1],
                     [sumX |-> acc.sumX + x, sumY |-> acc.sumY + y, count |-> acc.count + 1,
                      minX |-> Min(acc.minX, x), maxX |-> Max(acc.maxX, x), minY |-> Min(acc.minY, y), maxY |-> Max(acc.maxY, y)])

\* the Blob floodFill answers with for the sums of a component
BlobOf(acc) == [x |-> Ratio(acc.sumX, acc.count), y |-> Ratio(acc.sumY, acc.count), pixelCount |-> acc.count,
                minX |-> acc.minX, maxX |-> acc.maxX, minY |-> acc.minY, maxY |-> acc.maxY]

\* the filter of findBlobs without the aspect ratio
KeepsBlobByAreaOnly(blob, minArea, maxArea) ==
    /\ blob.pixelCount >= minArea
    /\ blob.pixelCount <= maxArea

\* the filter of findBlobs on area and aspect ratio
KeepsBlob(blob, minArea, maxArea) ==
    LET bboxWidth == blob.maxX - blob.minX + 1
        bboxHeight == blob.maxY - blob.minY + 1
    IN /\ blob.pixelCount >= minArea
       /\ blob.pixelCount <= maxArea
       /\ 2 * Max(bboxWidth, bboxHeight) < AspectRatioLimitTimes2 * Min(bboxWidth, bboxHeight)

\* the scan of findBlobs from index idx on
RECURSIVE ScanBlobs(_, _, _, _, _, _, _)
ScanBlobs(binary, width, height, minArea, maxArea, idx, state) ==
    IF idx >= width * height THEN state.blobs
    ELSE IF binary[idx] > 0 /\ state.visited[idx] = 0
         THEN LET x == idx % width
                  y == idx \div width
                  filled == FloodLoop(binary, width, height, <<(<<x, y>>)>>, state.visited,
                                [sumX |-> 0, sumY |-> 0, count |-> 0, minX |-> x, maxX |-> x, minY |-> y, maxY |-> y])
                  blob == BlobOf(filled.acc)
              IN ScanBlobs(binary, width, height, minArea, maxArea, idx + 1,
                     [visited |-> filled.visited,
                      blobs |-> IF filled.acc.count # 0 /\ KeepsBlob(blob, minArea, maxArea) THEN Append(state.blobs, blob) ELSE state.blobs])
         ELSE ScanBlobs(binary, width, height, minArea, maxArea, idx + 1, state)

\* blobs.sort((a, b) => b.pixelCount - a.pixelCount), a stable sort
RECURSIVE SortBlobs(_)
SortBlobs(blobs) ==
    IF Len(blobs) <= 1 THEN blobs
    ELSE LET sorted == SortBlobs(SubSeq(blobs, 1, Len(blobs) - 1))
             last == blobs[Len(blobs)]
             before == {i \in 1..Len(sorted) : sorted[i].pixelCount >= last.pixelCount}
             k == IF before = {} THEN 0 ELSE CHOOSE i \in before : \A j \in before : j <= i
         IN SubSeq(sorted, 1, k) \o <<last>> \o SubSeq(sorted, k + 1, Len(sorted))

findBlobs(binary, width, height, minArea, maxArea) ==
    SortBlobs(ScanBlobs(binary, width, height, minArea, maxArea, 0, [visited |-> [i \in DOMAIN binary |-> 0], blobs |-> <<>>]))

BlobInit ==
    /\ Untouched
    /\ \E binary \in BlobMasks, minArea \in {1, LargeMinArea}, maxArea \in {SmallMaxArea, BlobGridWidth * BlobGridHeight} :
         call = [fn |-> "findBlobs", returned |-> FALSE, binary |-> binary, width |-> BlobGridWidth, height |-> BlobGridHeight, minArea |-> minArea, maxArea |-> maxArea, result |-> <<>>]

\* processFrame gets the blobs of the mask
ReturnFindBlobs ==
    /\ call.fn = "findBlobs"
    /\ ~call.returned
    /\ CallBecomes([call EXCEPT !.returned = TRUE, !.result = findBlobs(call.binary, call.width, call.height, call.minArea, call.maxArea)])

BlobNext == ReturnFindBlobs

BlobSpec == BlobInit /\ [][BlobNext]_vars

\* the 4-connected foreground component of the pixels S
RECURSIVE Component(_, _, _, _)
Component(binary, width, height, S) ==
    LET more == {j \in DOMAIN binary :
                    /\ binary[j] # 0
                    /\ \E i \in S : \/ (j = i - 1 /\ i % width # 0)
                                    \/ (j = i + 1 /\ j % width # 0)
                                    \/ j = i - width
                                    \/ j = i + width}
    IN IF more \subseteq S THEN S ELSE Component(binary, width, height, S \cup more)

\* the area and the bounding box of a set of pixels
Extent(S, width) ==
    [pixelCount |-> Cardinality(S),
     minX |-> CHOOSE v \in {i % width : i \in S} : \A i \in S : v <= i % width,
     maxX |-> CHOOSE v \in {i % width : i \in S} : \A i \in S : v >= i % width,
     minY |-> CHOOSE v \in {i \div width : i \in S} : \A i \in S : v <= i \div width,
     maxY |-> CHOOSE v \in {i \div width : i \in S} : \A i \in S : v >= i \div width]

BlobExtent(blob) == [pixelCount |-> blob.pixelCount, minX |-> blob.minX, maxX |-> blob.maxX, minY |-> blob.minY, maxY |-> blob.maxY]

\* C26: findBlobs retains a 4-connected foreground component if and only if
\* minArea <= pixelCount <= maxArea and the aspect ratio of its bounding box,
\* max(w, h) / min(w, h), is below 5.5
C26_BlobFilter ==
    (call.fn = "findBlobs" /\ call.returned) =>
        LET components == {Component(call.binary, call.width, call.height, {i}) : i \in {j \in DOMAIN call.binary : call.binary[j] # 0}}
            retained == {c \in components :
                            LET e == Extent(c, call.width)
                                w == e.maxX - e.minX + 1
                                h == e.maxY - e.minY + 1
                            IN /\ call.minArea <= e.pixelCount
                               /\ e.pixelCount <= call.maxArea
                               /\ 2 * Max(w, h) < 11 * Min(w, h)}
        IN /\ {BlobExtent(call.result[k]) : k \in 1..Len(call.result)} = {Extent(c, call.width) : c \in retained}
           /\ Len(call.result) = Cardinality(retained)

\* a line as wide as the grid, its area inside the range, is left out
C26_Witness ==
    /\ call.fn = "findBlobs"
    /\ call.returned
    /\ call.minArea = 1
    /\ call.maxArea = BlobGridWidth * BlobGridHeight
    /\ Len(call.result) = 0
    /\ \E y \in 0..(call.height - 1) :
         /\ \A x \in 0..(call.width - 1) : call.binary[y * call.width + x] # 0
         /\ \A i \in DOMAIN call.binary : i \div call.width # y => call.binary[i] = 0

\* ------------------------- useMouseTracker: the background and the start
\* a step of captureBackground or clearBackground: the video and the hook
MouseBecomes(v, m) ==
    /\ video' = v
    /\ mouse' = m
    /\ UNCHANGED <<store, method, isTrackingRef, abortControllerRef, frameCallbackIdRef, endedHandlerRef, loops, session, ai, call, calibration, knn, loader>>

\* captureBackground up to the first seek wait: the position and the paused
\* state are saved and the video is sent to the first sample time
captureBackground ==
    /\ mouse.capture.pc = "idle"
    /\ MouseBecomes([video EXCEPT !.currentTime = 0],
                    [mouse EXCEPT !.capture = [pc |-> "seek", i |-> 0, originalTime |-> video.currentTime, wasPaused |-> video.paused]])

\* the 'seeked' event a captureBackground waits for: the frame is drawn and
\* read, which succeeds or throws; after the last sample the background is
\* cached and the video is sent back
CaptureSeeked(outcome) ==
    /\ mouse.capture.pc = "seek"
    /\ IF outcome = "throw"
       THEN MouseBecomes(video, [mouse EXCEPT !.capture.pc = "idle"])
       ELSE IF mouse.capture.i + 1 < CaptureSamples
       THEN MouseBecomes([video EXCEPT !.currentTime = (DurationTicks * (mouse.capture.i + 1)) \div (CaptureSamples - 1)],
                         [mouse EXCEPT !.capture.i = @ + 1])
       ELSE MouseBecomes([video EXCEPT !.currentTime = mouse.capture.originalTime],
                         [mouse EXCEPT !.backgroundGrayscaleRef = TRUE,
                                       !.backgroundImageDataRef = TRUE,
                                       !.hasBackground = IF mouse.capture.wasPaused THEN TRUE ELSE @,
                                       !.capture.pc = IF mouse.capture.wasPaused THEN "idle" ELSE "play"])

\* the promise of the video.play() of captureBackground is settled
CapturePlayed(fulfilled) ==
    /\ mouse.capture.pc = "play"
    /\ MouseBecomes(video, [mouse EXCEPT !.hasBackground = IF fulfilled THEN TRUE ELSE @, !.capture.pc = "idle"])

clearBackground ==
    /\ mouse' = [mouse EXCEPT !.backgroundImageDataRef = FALSE, !.backgroundGrayscaleRef = FALSE, !.hasBackground = FALSE]
    /\ UNCHANGED <<store, method, isTrackingRef, abortControllerRef, frameCallbackIdRef, endedHandlerRef, loops, video, session, ai, call, calibration, knn, loader>>

\* runTracking of the mouse tracker that does not look for the background
MouseRunTrackingUnchecked(step) ==
    /\ MicrotasksDone
    /\ ~store.isTracking
    /\ \E l \in LoopIds :
         /\ FreeSlot(l)
         /\ Becomes(playbackRunTracking(Cur, "mouse-tracker", "ok", step, FALSE, l))

\* runTracking of the mouse tracker up to its seek wait
MouseRunTracking(step) ==
    /\ MicrotasksDone
    /\ ~store.isTracking
    /\ \E l \in LoopIds :
         /\ FreeSlot(l)
         /\ Becomes(playbackRunTracking(Cur, "mouse-tracker", IF mouse.backgroundImageDataRef THEN "ok" ELSE "noBackground", step, FALSE, l))

\* the mouse tracker is selected and the user has left the video anywhere,
\* paused or playing
MouseInit ==
    /\ store = InitialStore
    /\ method = "mouse-tracker"
    /\ isTrackingRef = [d \in Detectors |-> FALSE]
    /\ abortControllerRef = [d \in Detectors |-> Null]
    /\ frameCallbackIdRef = [d \in PlaybackDriven |-> NoLoop]
    /\ endedHandlerRef = NoLoop
    /\ loops = [l \in LoopIds |-> IdleLoop]
    /\ \E t \in 0..(DurationTicks - 1), paused \in BOOLEAN :
         video = [currentTime |-> t, paused |-> paused, started |-> FALSE, endedEvent |-> FALSE]
    /\ session = IdleSession
    /\ ai = InitialAi(DefaultAiConfig)
    /\ mouse = InitialMouse
    /\ call = NoCall
    /\ calibration = InitialCalibration
    /\ knn = InitialKnn
    /\ loader = InitialLoader

MouseNext ==
    \/ captureBackground
    \/ \E outcome \in {"ok", "throw"} : CaptureSeeked(outcome)
    \/ \E fulfilled \in BOOLEAN : CapturePlayed(fulfilled)
    \/ clearBackground
    \/ \E step \in 1..MaxSampleStep : MouseRunTracking(step)
    \/ HandleStopTracking

MouseSpec == MouseInit /\ [][MouseNext]_vars

\* ------------------------------- calls of the detectors' pure functions
\* useMouseTracker.processFrame from the background subtraction to the blobs:
\* the thresholded difference, the optional erosion and findBlobs
mouseMask(currentGray, backgroundGray, width, height, config) ==
    LET diff == [i \in DOMAIN currentGray |->
                    IF Abs(currentGray[i] - backgroundGray[i]) > config.mouseThreshold
                    THEN (IF config.mouseInvert THEN 0 ELSE 255)
                    ELSE (IF config.mouseInvert THEN 255 ELSE 0)]
        binary == IF config.mouseErosion THEN erode(diff, width, height) ELSE diff
    IN [binary |-> binary, blobs |-> findBlobs(binary, width, height, config.mouseMinArea, config.mouseMaxArea)]

\* no previous position (lastMousePositionRef.current is null)
NoPosition == [x |-> NoNumber, y |-> NoNumber]

\* one for loop of selectMouseBlob over the blobs from index i on; best is the
\* best blob, its score (NoNumber for Infinity) and whether a blob was scored.
\* The blobs are on the row of the previous position, so the distance is |dx|;
\* the scores are kept exact by scaling: tier "jump" by 10 * expectedArea,
\* tier "relaxed" by 2 * expectedArea, and the relaxed limit 1.5 * maxJump by 2
RECURSIVE BlobLoop(_, _, _, _, _, _, _)
BlobLoop(blobs, i, best, tier, expectedArea, prevPosition, maxJumpDistance) ==
    IF i > Len(blobs) THEN best
    ELSE LET blob == blobs[i]
             distance == Abs(blob.x - prevPosition.x)
             areaDiff == Abs(blob.pixelCount - expectedArea)
             skipped == \/ (tier = "jump" /\ distance > maxJumpDistance)
                        \/ (tier = "relaxed" /\ 2 * distance > 3 * maxJumpDistance)
             score == IF tier = "jump" THEN 7 * distance * expectedArea + 300 * areaDiff
                      ELSE IF tier = "relaxed" THEN distance * expectedArea + 100 * areaDiff
                      ELSE areaDiff
             next == IF skipped THEN best
                     ELSE IF best.score = NoNumber \/ score < best.score
                          THEN [blob |-> blob, score |-> score, found |-> TRUE]
                          ELSE [best EXCEPT !.found = TRUE]
         IN BlobLoop(blobs, i + 1, next, tier, expectedArea, prevPosition, maxJumpDistance)

\* selectMouseBlob choosing by area alone
selectMouseBlobByArea(blobs, expectedArea, prevPosition, maxJumpDistance) ==
    IF Len(blobs) = 0 THEN [x |-> NoNumber, y |-> NoNumber, pixelCount |-> 0]
    ELSE BlobLoop(blobs, 1, [blob |-> blobs[1], score |-> NoNumber, found |-> FALSE], "area", expectedArea, prevPosition, maxJumpDistance).blob

selectMouseBlob(blobs, expectedArea, prevPosition, maxJumpDistance) ==
    IF Len(blobs) = 0 THEN [x |-> NoNumber, y |-> NoNumber, pixelCount |-> 0]
    ELSE LET start == [blob |-> blobs[1], score |-> NoNumber, found |-> FALSE]
             byArea == BlobLoop(blobs, 1, start, "area", expectedArea, prevPosition, maxJumpDistance)
             byJump == BlobLoop(blobs, 1, start, "jump", expectedArea, prevPosition, maxJumpDistance)
             relaxed == BlobLoop(blobs, 1, start, "relaxed", expectedArea, prevPosition, maxJumpDistance)
         IN IF prevPosition = NoPosition THEN byArea.blob
            ELSE IF byJump.found THEN byJump.blob
            ELSE IF relaxed.score = NoNumber THEN byArea.blob
            ELSE relaxed.blob

\* isPointInZone for a point on the row of the zone's y, where the distance
\* to the center of a circle is |dx| and distance <= width / 2 is doubled
isPointInZone(point, zone) ==
    IF zone.shape = "rectangle"
    THEN /\ point.x >= zone.x
         /\ point.x <= zone.x + zone.width
         /\ point.y >= zone.y
         /\ point.y <= zone.y + zone.height
    ELSE IF zone.shape = "circle"
    THEN 2 * Abs(point.x - zone.x) <= zone.width
    ELSE FALSE

\* the loop of analyzeZones that skips a frame without detection altogether
RECURSIVE ZoneLoopSkippingNull(_, _, _, _, _)
ZoneLoopSkippingNull(zone, trackingResults, fps, i, acc) ==
    IF i > Len(trackingResults) THEN acc
    ELSE LET result == trackingResults[i]
             isInZone == isPointInZone(result.centerOfMass, zone)
             next == IF result.centerOfMass = NoPosition THEN acc
                     ELSE IF isInZone
                     THEN [acc EXCEPT !.timeInZone = Ratio(@[1] + 1, fps),
                                      !.entryCount = IF acc.wasInZonePreviously THEN @ ELSE @ + 1,
                                      !.firstEntry = IF ~acc.wasInZonePreviously /\ @ = NoNumber THEN result.timestamp ELSE @,
                                      !.wasInZonePreviously = TRUE]
                     ELSE [acc EXCEPT !.exitCount = IF acc.wasInZonePreviously THEN @ + 1 ELSE @,
                                      !.lastExit = IF acc.wasInZonePreviously THEN result.timestamp ELSE @,
                                      !.wasInZonePreviously = FALSE]
         IN ZoneLoopSkippingNull(zone, trackingResults, fps, i + 1, next)

\* the loop of analyzeZones that takes the latest entry for firstEntry
RECURSIVE ZoneLoopLatestEntry(_, _, _, _, _)
ZoneLoopLatestEntry(zone, trackingResults, fps, i, acc) ==
    IF i > Len(trackingResults) THEN acc
    ELSE LET result == trackingResults[i]
             isInZone == isPointInZone(result.centerOfMass, zone)
             next == IF result.centerOfMass = NoPosition
                     THEN (IF acc.wasInZonePreviously
                           THEN [acc EXCEPT !.exitCount = @ + 1, !.lastExit = result.timestamp, !.wasInZonePreviously = FALSE]
                           ELSE acc)
                     ELSE IF isInZone
                     THEN [acc EXCEPT !.timeInZone = Ratio(@[1] + 1, fps),
                                      !.entryCount = IF acc.wasInZonePreviously THEN @ ELSE @ + 1,
                                      !.firstEntry = IF ~acc.wasInZonePreviously THEN result.timestamp ELSE @,
                                      !.wasInZonePreviously = TRUE]
                     ELSE [acc EXCEPT !.exitCount = IF acc.wasInZonePreviously THEN @ + 1 ELSE @,
                                      !.lastExit = IF acc.wasInZonePreviously THEN result.timestamp ELSE @,
                                      !.wasInZonePreviously = FALSE]
         IN ZoneLoopLatestEntry(zone, trackingResults, fps, i + 1, next)

\* the loop of analyzeZones over the results from index i on; timeInZone is
\* the exact fraction <<frames in the zone, fps>>
RECURSIVE ZoneLoop(_, _, _, _, _)
ZoneLoop(zone, trackingResults, fps, i, acc) ==
    IF i > Len(trackingResults) THEN acc
    ELSE LET result == trackingResults[i]
             isInZone == isPointInZone(result.centerOfMass, zone)
             next == IF result.centerOfMass = NoPosition
                     THEN (IF acc.wasInZonePreviously
                           THEN [acc EXCEPT !.exitCount = @ + 1, !.lastExit = result.timestamp, !.wasInZonePreviously = FALSE]
                           ELSE acc)
                     ELSE IF isInZone
                     THEN [acc EXCEPT !.timeInZone = Ratio(@[1] + 1, fps),
                                      !.entryCount = IF acc.wasInZonePreviously THEN @ ELSE @ + 1,
                                      !.firstEntry = IF ~acc.wasInZonePreviously /\ @ = NoNumber THEN result.timestamp ELSE @,
                                      !.wasInZonePreviously = TRUE]
                     ELSE [acc EXCEPT !.exitCount = IF acc.wasInZonePreviously THEN @ + 1 ELSE @,
                                      !.lastExit = IF acc.wasInZonePreviously THEN result.timestamp ELSE @,
                                      !.wasInZonePreviously = FALSE]
         IN ZoneLoop(zone, trackingResults, fps, i + 1, next)

analyzeZones(zones, trackingResults, fps) ==
    [z \in DOMAIN zones |->
        LET acc == ZoneLoop(zones[z], trackingResults, fps, 1,
                       [timeInZone |-> Ratio(0, fps), entryCount |-> 0, exitCount |-> 0, firstEntry |-> NoNumber, lastExit |-> NoNumber, wasInZonePreviously |-> FALSE])
        IN [zoneId |-> zones[z].id, timeInZone |-> acc.timeInZone, entryCount |-> acc.entryCount, exitCount |-> acc.exitCount,
            firstEntry |-> acc.firstEntry, lastExit |-> acc.lastExit]]

\* useKnnTracker.searchForTarget on a video that is one window high, with
\* knnWindowSize 2: the windows are centred on x = 1, 2, ... and step is 1.
\* A prediction is what predictAtPosition returns for a window: null when
\* the prediction failed, else the label and its confidence in thirds
NoPrediction == [label |-> "null", confidence |-> 0]

Predictions ==
    {NoPrediction} \cup [label : {"target", "background"}, confidence : (KnnNeighbours - 1)..KnnNeighbours]

NoBest == [x |-> NoNumber, confidence |-> 0]

\* the windows searchForTarget visits around lastPosition
SearchWindows(lastPosition, searchRadius) ==
    LET searchCenterX == IF lastPosition # NoNumber THEN lastPosition ELSE HalfWidth
        minX == Max(1, searchCenterX - searchRadius)
        maxX == Min(2 * HalfWidth - 1, searchCenterX + searchRadius)
    IN minX..(maxX - 1)

\* the sliding window search that stops at the first qualifying window
RECURSIVE SearchLoopFirstQualifying(_, _, _, _, _)
SearchLoopFirstQualifying(x, maxX, predictions, knnConfidence, bestPosition) ==
    IF ~(x < maxX)
    THEN bestPosition
    ELSE LET prediction == predictions[x]
         IN IF prediction # NoPrediction /\ prediction.label = "target" /\ prediction.confidence >= knnConfidence
            THEN [x |-> x, confidence |-> prediction.confidence]
            ELSE SearchLoopFirstQualifying(x + 1, maxX, predictions, knnConfidence, bestPosition)

\* the sliding window search from window x on
RECURSIVE SearchLoop(_, _, _, _, _)
SearchLoop(x, maxX, predictions, knnConfidence, bestPosition) ==
    IF ~(x < maxX)
    THEN bestPosition
    ELSE LET prediction == predictions[x]
             qualifies == prediction # NoPrediction /\ prediction.label = "target" /\ prediction.confidence >= knnConfidence
         IN SearchLoop(x + 1, maxX, predictions, knnConfidence,
                       IF qualifies /\ (bestPosition = NoBest \/ prediction.confidence > bestPosition.confidence)
                       THEN [x |-> x, confidence |-> prediction.confidence]
                       ELSE bestPosition)

\* the result of searchForTarget and lastPositionRef after it
searchForTarget(lastPosition, searchRadius, knnConfidence, predictions) ==
    LET windows == SearchWindows(lastPosition, searchRadius)
        bestPosition == IF windows = {}
                        THEN NoBest
                        ELSE LET minX == CHOOSE x \in windows : \A w \in windows : x <= w
                                 maxX == 1 + CHOOSE x \in windows : \A w \in windows : w <= x
                             IN SearchLoop(minX, maxX, predictions, knnConfidence, NoBest)
    IN IF bestPosition # NoBest
       THEN [centerOfMass |-> bestPosition.x, aiScore |-> bestPosition.confidence, lastPositionRef |-> bestPosition.x]
       ELSE [centerOfMass |-> NoNumber, aiScore |-> NoNumber, lastPositionRef |-> lastPosition]

FnInit ==
    /\ Untouched
    /\ \/ \E config \in [mouseThreshold : 0..MaxThreshold, mouseInvert : BOOLEAN, mouseErosion : BOOLEAN,
                         mouseMinArea : {1, LargeMinArea}, mouseMaxArea : {SmallMaxArea, BlobGridWidth * BlobGridHeight}],
             k \in 0..(BlobGridWidth * BlobGridHeight - 1), delta \in 0..MaxDelta :
            LET backgroundGray == [i \in 0..(BlobGridWidth * BlobGridHeight - 1) |-> i % (MaxGray + 1)]
            IN call = [fn |-> "mouseMask", returned |-> FALSE, config |-> config, width |-> BlobGridWidth, height |-> BlobGridHeight,
                       backgroundGray |-> backgroundGray,
                       currentGray |-> [backgroundGray EXCEPT ![k] = @ + delta],
                       result |-> [binary |-> backgroundGray, blobs |-> <<>>]]
       \/ \E n \in 0..MaxBlobs, expectedArea \in 1..MaxBlobArea, maxJumpDistance \in 1..MaxJump,
             prevPosition \in {NoPosition, [x |-> 0, y |-> 0]} :
            \E blobs \in [1..n -> [x : 0..MaxBlobX, y : {0}, pixelCount : 1..MaxBlobArea]] :
               call = [fn |-> "selectMouseBlob", returned |-> FALSE, blobs |-> blobs, expectedArea |-> expectedArea,
                       prevPosition |-> prevPosition, maxJumpDistance |-> maxJumpDistance,
                       result |-> [x |-> NoNumber, y |-> NoNumber, pixelCount |-> 0]]
       \/ \E n \in 0..MaxCandidates, strategy \in {"highestScore", "largest", "nearestPrev"}, previousBox \in Boxes \cup {NoBox} :
            \E detections \in [1..n -> [bbox : [x : 0..MaxPos, width : {BoxWidth, BoxWidth + 1}], score : 1..MaxScore]] :
               call = [fn |-> "selectBestDetection", returned |-> FALSE, detections |-> detections, strategy |-> strategy,
                       previousBox |-> previousBox, result |-> NoDetection]
       \/ \E box1, box2 \in [x : 0..MaxPos, width : (0 - 1)..BoxWidth] :
            call = [fn |-> "calculateIoU", returned |-> FALSE, box1 |-> box1, box2 |-> box2,
                    result |-> <<0, 0>>, swapped |-> <<0, 0>>, self |-> <<0, 0>>]
       \/ \E n \in 0..MaxResults, fps \in 1..MaxFps, shape \in {"rectangle", "circle"}, width \in {0, 2} :
            \E positions \in [1..n -> {NoPosition} \cup [x : 0..MaxPos, y : {0}]] :
               call = [fn |-> "analyzeZones", returned |-> FALSE, fps |-> fps,
                       zones |-> <<[id |-> "zone", shape |-> shape, x |-> 1, y |-> 0, width |-> width, height |-> 1]>>,
                       trackingResults |-> [i \in 1..n |-> [frameNumber |-> i - 1, timestamp |-> i - 1, centerOfMass |-> positions[i]]],
                       result |-> <<>>]
       \/ \E lastPosition \in {NoNumber} \cup 1..(2 * HalfWidth - 2), searchRadius \in 1..MaxRadius,
             knnConfidence \in 1..MaxKnnConfidence :
            \E predictions \in [SearchWindows(lastPosition, searchRadius) -> Predictions] :
               call = [fn |-> "searchForTarget", returned |-> FALSE, lastPosition |-> lastPosition,
                       searchRadius |-> searchRadius, knnConfidence |-> knnConfidence, predictions |-> predictions,
                       result |-> [centerOfMass |-> NoNumber, aiScore |-> NoNumber, lastPositionRef |-> lastPosition]]

\* processFrame has the mask and the blobs of the frame
ReturnMouseMask ==
    /\ call.fn = "mouseMask"
    /\ ~call.returned
    /\ CallBecomes([call EXCEPT !.returned = TRUE,
                                !.result = mouseMask(call.currentGray, call.backgroundGray, call.width, call.height, call.config)])

\* processFrame has the blob selectMouseBlob chose
ReturnSelectMouseBlob ==
    /\ call.fn = "selectMouseBlob"
    /\ ~call.returned
    /\ CallBecomes([call EXCEPT !.returned = TRUE,
                                !.result = selectMouseBlob(call.blobs, call.expectedArea, call.prevPosition, call.maxJumpDistance)])

\* useAiTracker.processFrame has the detection selectBestDetection chose
ReturnSelectBestDetection ==
    /\ call.fn = "selectBestDetection"
    /\ ~call.returned
    /\ CallBecomes([call EXCEPT !.returned = TRUE,
                                !.result = selectBestDetection(call.detections, call.strategy, call.previousBox)])

\* selectByIoU has the IoU of two boxes; the same boxes in the other order
\* and box1 with itself are computed along
ReturnCalculateIoU ==
    /\ call.fn = "calculateIoU"
    /\ ~call.returned
    /\ CallBecomes([call EXCEPT !.returned = TRUE,
                                !.result = calculateIoU(call.box1, call.box2),
                                !.swapped = calculateIoU(call.box2, call.box1),
                                !.self = calculateIoU(call.box1, call.box1)])

\* the zone store has the analytics of the tracking results
ReturnAnalyzeZones ==
    /\ call.fn = "analyzeZones"
    /\ ~call.returned
    /\ CallBecomes([call EXCEPT !.returned = TRUE, !.result = analyzeZones(call.zones, call.trackingResults, call.fps)])

ReturnSearchForTarget ==
    /\ call.fn = "searchForTarget"
    /\ ~call.returned
    /\ CallBecomes([call EXCEPT !.returned = TRUE,
                                !.result = searchForTarget(call.lastPosition, call.searchRadius, call.knnConfidence, call.predictions)])

FnNext ==
    \/ ReturnAnalyzeZones
    \/ ReturnSearchForTarget
    \/ ReturnMouseMask
    \/ ReturnSelectMouseBlob
    \/ ReturnSelectBestDetection
    \/ ReturnCalculateIoU

FnSpec == FnInit /\ [][FnNext]_vars

\* C22: when the current frame is identical to the cached background the
\* binarized mask has no foreground pixel and no blob is found, with invert
\* off and on and for every diffThreshold >= 0
C22_IdenticalFrameHasNoForeground ==
    (call.fn = "mouseMask" /\ call.returned /\ call.currentGray = call.backgroundGray) =>
        /\ \A i \in DOMAIN call.result.binary : call.result.binary[i] = 0
        /\ Len(call.result.blobs) = 0

\* C27: selectMouseBlob answers null exactly for no blobs and otherwise one of
\* the blobs: with no previous position the blob whose area is closest to the
\* expected area; else, if some blob is within maxJumpDistance, one of those
\* with the least 0.7 * distance + 0.3 * 100 * |area - expected| / expected;
\* else, if some blob is within 1.5 * maxJumpDistance, one of those with the
\* least 0.5 * distance + 0.5 * 100 * |area - expected| / expected; else the
\* blob whose area is closest to the expected area
C27_ThreeTiers ==
    (call.fn = "selectMouseBlob" /\ call.returned) =>
        LET Blobs == {call.blobs[i] : i \in 1..Len(call.blobs)}
            e == call.expectedArea
            d(b) == Abs(b.x - call.prevPosition.x)
            AreaClosest(r) == \A b \in Blobs : Abs(r.pixelCount - e) <= Abs(b.pixelCount - e)
            Near == {b \in Blobs : d(b) <= call.maxJumpDistance}
            Relaxed == {b \in Blobs : 2 * d(b) <= 3 * call.maxJumpDistance}
            r == call.result
        IN /\ r.pixelCount = 0 <=> Blobs = {}
           /\ Blobs # {} =>
                /\ r \in Blobs
                /\ IF call.prevPosition = NoPosition THEN AreaClosest(r)
                   ELSE IF Near # {}
                        THEN r \in Near /\ \A b \in Near : 7 * d(r) * e + 300 * Abs(r.pixelCount - e) <= 7 * d(b) * e + 300 * Abs(b.pixelCount - e)
                   ELSE IF Relaxed # {}
                        THEN r \in Relaxed /\ \A b \in Relaxed : d(r) * e + 100 * Abs(r.pixelCount - e) <= d(b) * e + 100 * Abs(b.pixelCount - e)
                   ELSE AreaClosest(r)

\* of two blobs within the jump distance the farther one is chosen for its area
C27_Witness ==
    /\ call.fn = "selectMouseBlob"
    /\ call.returned
    /\ call.prevPosition # NoPosition
    /\ Len(call.blobs) = 2
    /\ call.blobs[2].x <= call.maxJumpDistance
    /\ call.blobs[1].x < call.blobs[2].x
    /\ call.result = call.blobs[2]

\* C28: selectBestDetection answers null exactly for the empty list and
\* otherwise a member of the list: under highestScore one of maximal score,
\* under largest one of maximal area, under nearestPrev one whose center is
\* nearest to the previous box, or one of maximal score when there is no
\* previous box
C28_BestDetection ==
    (call.fn = "selectBestDetection" /\ call.returned) =>
        LET D == {call.detections[i] : i \in 1..Len(call.detections)}
            r == call.result
            p == call.previousBox
            Center2(box) == 2 * box.x + box.width
        IN /\ r = NoDetection <=> D = {}
           /\ D # {} =>
                /\ r \in D
                /\ call.strategy = "highestScore" => \A c \in D : c.score <= r.score
                /\ call.strategy = "largest" => \A c \in D : c.bbox.width <= r.bbox.width
                /\ (call.strategy = "nearestPrev" /\ p # NoBox) =>
                      \A c \in D : Abs(Center2(r.bbox) - Center2(p)) <= Abs(Center2(c.bbox) - Center2(p))
                /\ (call.strategy = "nearestPrev" /\ p = NoBox) => \A c \in D : c.score <= r.score

\* under largest the second, wider detection wins over a higher score
C28_Witness ==
    /\ call.fn = "selectBestDetection"
    /\ call.returned
    /\ call.strategy = "largest"
    /\ Len(call.detections) = 2
    /\ call.detections[1].score > call.detections[2].score
    /\ call.result = call.detections[2]

\* C29: calculateIoU is symmetric, is 1 for a box of positive area with
\* itself, is 0 when the boxes do not overlap or one of them has no positive
\* area, and is always between 0 and 1 (the value of the pair <<i, u>> is
\* i / u when u > 0 and 0 otherwise)
C29_IoU ==
    (call.fn = "calculateIoU" /\ call.returned) =>
        LET Value(p) == IF p[2] > 0 THEN Ratio(p[1], p[2]) ELSE Ratio(0, 1)
            IsZero(v) == v[1] = 0
            IsOne(v) == v[1] = v[2]
            a == call.box1
            b == call.box2
            Overlap == Max(a.x, b.x) < Min(a.x + a.width, b.x + b.width)
            v == Value(call.result)
        IN /\ v[1] * Value(call.swapped)[2] = Value(call.swapped)[1] * v[2]
           /\ a.width > 0 => IsOne(Value(call.self))
           /\ (~Overlap \/ a.width <= 0 \/ b.width <= 0) => IsZero(v)
           /\ 0 <= v[1] /\ v[1] <= v[2]

\* two different boxes that overlap in part: the IoU is strictly between 0 and 1
C29_Witness ==
    /\ call.fn = "calculateIoU"
    /\ call.returned
    /\ call.box1.x < call.box2.x
    /\ 0 < call.result[1]
    /\ call.result[1] < call.result[2]

\* C30: for every zone analyzeZones answers timeInZone = (number of results
\* inside the zone) / fps, entryCount = the number of transitions from outside
\* to inside and exitCount = the number of transitions from inside to outside,
\* where a result without position is outside and the subject starts outside
C30_ZoneCounts ==
    (call.fn = "analyzeZones" /\ call.returned) =>
        /\ Len(call.result) = Len(call.zones)
        /\ \A z \in DOMAIN call.zones :
             LET n == Len(call.trackingResults)
                 Inside(i) == /\ i >= 1
                              /\ call.trackingResults[i].centerOfMass # NoPosition
                              /\ isPointInZone(call.trackingResults[i].centerOfMass, call.zones[z])
                 a == call.result[z]
             IN /\ a.timeInZone[1] * call.fps = Cardinality({i \in 1..n : Inside(i)}) * a.timeInZone[2]
                /\ a.timeInZone[2] > 0
                /\ a.entryCount = Cardinality({i \in 1..n : Inside(i) /\ ~Inside(i - 1)})
                /\ a.exitCount = Cardinality({i \in 1..n : ~Inside(i) /\ Inside(i - 1)})

\* the subject is in the zone, is lost for a frame and is in the zone again:
\* two entries and one exit
C30_Witness ==
    /\ call.fn = "analyzeZones"
    /\ call.returned
    /\ Len(call.trackingResults) = 3
    /\ call.trackingResults[2].centerOfMass = NoPosition
    /\ call.result[1].entryCount = 2
    /\ call.result[1].exitCount = 1
    /\ call.result[1].timeInZone = Ratio(2, call.fps)

\* C23: over any sequence of captureBackground, clearBackground and
\* runTracking a mouse run enters Running only while a background is cached,
\* and with no background runTracking reports the precondition failure and
\* starts no frame loop
C23_RunNeedsBackground ==
    [][/\ (~store.isTracking /\ store'.isTracking) => (mouse.backgroundImageDataRef /\ session'.phase = "Running")
       /\ ((\E step \in 1..MaxSampleStep : MouseRunTracking(step)) /\ ~mouse.backgroundImageDataRef) =>
             /\ store'.error = "Video, metadata, or background not ready"
             /\ ~store'.isTracking
             /\ loops' = loops
             /\ video' = video]_vars

\* a run is under way on a background that was captured
C23_Witness ==
    /\ store.isTracking
    /\ session.phase = "Running"
    /\ mouse.backgroundImageDataRef
    /\ mouse.hasBackground
    /\ \E l \in LoopIds : loops[l].det = "mouse-tracker" /\ loops[l].pc = "seek"

\* C24: captureBackground restores the position and the paused or playing
\* state the video had when it was called on every path it ends on
C24_CaptureRestoresVideo ==
    [][(mouse.capture.pc # "idle" /\ mouse'.capture.pc = "idle") =>
          /\ video'.currentTime = mouse.capture.originalTime
          /\ video'.paused = mouse.capture.wasPaused]_vars

\* C39: for every zone and result sequence analyzeZones answers
\* 0 <= entryCount - exitCount <= 1, the difference being 1 exactly when the
\* last result is inside the zone; firstEntry is null iff entryCount = 0 and
\* else the timestamp of the first result inside; lastExit is null iff
\* exitCount = 0 and else the timestamp of the last result found outside or
\* undetected right after a result inside
C39_EntriesAndExits ==
    (call.fn = "analyzeZones" /\ call.returned) =>
        \A z \in DOMAIN call.zones :
            LET n == Len(call.trackingResults)
                Inside(i) == /\ i >= 1
                             /\ call.trackingResults[i].centerOfMass # NoPosition
                             /\ isPointInZone(call.trackingResults[i].centerOfMass, call.zones[z])
                ins == {i \in 1..n : Inside(i)}
                outs == {i \in 1..n : ~Inside(i) /\ Inside(i - 1)}
                a == call.result[z]
            IN /\ a.entryCount - a.exitCount \in {0, 1}
               /\ a.entryCount - a.exitCount = 1 <=> (n > 0 /\ Inside(n))
               /\ a.firstEntry = NoNumber <=> a.entryCount = 0
               /\ a.entryCount # 0 => \E i \in ins : a.firstEntry = call.trackingResults[i].timestamp /\ \A j \in ins : i <= j
               /\ a.lastExit = NoNumber <=> a.exitCount = 0
               /\ a.exitCount # 0 => \E i \in outs : a.lastExit = call.trackingResults[i].timestamp /\ \A j \in outs : j <= i

\* two visits of the zone, the second one still on at the end: firstEntry is
\* the first frame (timestamp 0) and lastExit the frame between the visits
C39_Witness ==
    /\ call.fn = "analyzeZones"
    /\ call.returned
    /\ Len(call.trackingResults) = 3
    /\ call.result[1].entryCount = 2
    /\ call.result[1].exitCount = 1
    /\ call.result[1].firstEntry = 0
    /\ call.result[1].lastExit = 1
\* ------------------------------------- useCalibrationStore, calibration UI
\* a step of the calibration store or of the calibration UI: c is the store
\* after the step, op and cm the operation of the store that it called
CalibrationBecomes(c, op, cm) ==
    /\ calibration' = [c EXCEPT !.lastOp = [op |-> op, cm |-> cm]]
    /\ UNCHANGED <<store, method, isTrackingRef, abortControllerRef, frameCallbackIdRef, endedHandlerRef, loops, video, session, ai, mouse, call, knn, loader>>

\* the points of the canvas that are clicked, as <<x, y>>
ClickPoints == LET coords == {0} \cup {4 * i : i \in 3..MaxClickStep} IN coords \X coords

\* the real lengths that are entered
RealLengths == (0 - 1)..MaxCm

\* Math.sqrt(n), kept exact: the square root of n is <<"sqrt", n>>
Sqrt(n) == <<"sqrt", n>>

\* calculatePixelDistance
calculatePixelDistance(start, end) ==
    LET dx == end[1] - start[1]
        dy == end[2] - start[2]
    IN Sqrt(dx * dx + dy * dy)

\* "throw" stands for the Error that is raised
calculatePixelsPerCm(pixelDistance, realCm) ==
    IF realCm <= 0 THEN <<"throw">> ELSE Ratio(pixelDistance, realCm)

startDrawing(c, point) == [c EXCEPT !.isDrawingCalibration = TRUE, !.drawingStart = point]

\* finishDrawing that stores the line without recomputing pixelsPerCm
finishDrawingKeepingScale(c, endPoint) ==
    IF c.drawingStart = <<>>
    THEN c
    ELSE LET pixelLength == calculatePixelDistance(c.drawingStart, endPoint)
         IN IF pixelLength[2] >= MinLineLength * MinLineLength
            THEN [c EXCEPT !.line = [start |-> c.drawingStart, end |-> endPoint, pixelLength |-> pixelLength,
                                     realDistanceCm |-> DefaultRealDistanceCm],
                           !.isDrawingCalibration = FALSE, !.drawingStart = <<>>]
            ELSE [c EXCEPT !.isDrawingCalibration = FALSE, !.drawingStart = <<>>]

\* pixelLength >= 20 is compared on the squares
finishDrawing(c, endPoint) ==
    IF c.drawingStart = <<>>
    THEN c
    ELSE LET dx == endPoint[1] - c.drawingStart[1]
             dy == endPoint[2] - c.drawingStart[2]
             pixelLength == Sqrt(dx * dx + dy * dy)
             line == [start |-> c.drawingStart, end |-> endPoint, pixelLength |-> pixelLength,
                      realDistanceCm |-> DefaultRealDistanceCm]
         IN IF pixelLength[2] >= MinLineLength * MinLineLength
            THEN [c EXCEPT !.line = line, !.pixelsPerCm = Ratio(pixelLength, line.realDistanceCm),
                           !.isDrawingCalibration = FALSE, !.drawingStart = <<>>]
            ELSE [c EXCEPT !.isDrawingCalibration = FALSE, !.drawingStart = <<>>]

cancelDrawing(c) == [c EXCEPT !.isDrawingCalibration = FALSE, !.drawingStart = <<>>]

\* setRealDistance without its guard on cm
setRealDistanceUnchecked(c, cm) ==
    IF c.line = NoLine
    THEN c
    ELSE [c EXCEPT !.line = [c.line EXCEPT !.realDistanceCm = cm], !.pixelsPerCm = Ratio(c.line.pixelLength, cm)]

setRealDistance(c, cm) ==
    IF c.line = NoLine \/ cm <= 0
    THEN c
    ELSE [c EXCEPT !.line = [c.line EXCEPT !.realDistanceCm = cm], !.pixelsPerCm = Ratio(c.line.pixelLength, cm)]

clearCalibration(c) ==
    [c EXCEPT !.line = NoLine, !.pixelsPerCm = <<>>, !.isDrawingCalibration = FALSE, !.drawingStart = <<>>]

\* the operations of the store, called in any order with any argument
StartDrawing ==
    /\ call = NoCall
    /\ \E point \in ClickPoints : CalibrationBecomes(startDrawing(calibration, point), "startDrawing", 0)

FinishDrawing ==
    /\ call = NoCall
    /\ \E endPoint \in ClickPoints : CalibrationBecomes(finishDrawing(calibration, endPoint), "finishDrawing", 0)

CancelDrawing ==
    /\ call = NoCall
    /\ CalibrationBecomes(cancelDrawing(calibration), "cancelDrawing", 0)

SetRealDistance ==
    /\ call = NoCall
    /\ \E cm \in RealLengths : CalibrationBecomes(setRealDistance(calibration, cm), "setRealDistance", cm)

ClearCalibration ==
    /\ call = NoCall
    /\ CalibrationBecomes(clearCalibration(calibration), "clearCalibration", 0)

ReturnCalculatePixelsPerCm ==
    /\ call.fn = "calculatePixelsPerCm"
    /\ ~call.returned
    /\ CallBecomes([call EXCEPT !.returned = TRUE, !.result = calculatePixelsPerCm(call.pixelDistance, call.realCm)])

\* either the store is used, or calculatePixelsPerCm is called on the length
\* of a line and a real length
CalibInit ==
    /\ Untouched
    /\ \/ call = NoCall
       \/ \E start \in ClickPoints, end \in ClickPoints, realCm \in RealLengths :
            call = [fn |-> "calculatePixelsPerCm", returned |-> FALSE, realCm |-> realCm,
                    pixelDistance |-> calculatePixelDistance(start, end), result |-> <<>>]

CalibNext ==
    \/ StartDrawing
    \/ FinishDrawing
    \/ CancelDrawing
    \/ SetRealDistance
    \/ ClearCalibration
    \/ ReturnCalculatePixelsPerCm

CalibSpec == CalibInit /\ [][CalibNext]_vars

\* ------------------------------ CalibrationPanel, useCalibrationDrawer
\* the Set Scale button: it starts or cancels a drawing, and the drawer has
\* taken no click of that drawing yet
HandleSetScale ==
    IF calibration.isDrawingCalibration
    THEN CalibrationBecomes([cancelDrawing(calibration) EXCEPT !.clicks = <<>>], "cancelDrawing", 0)
    ELSE CalibrationBecomes([startDrawing(calibration, <<0, 0>>) EXCEPT !.clicks = <<>>], "startDrawing", 0)

\* handleClick of useCalibrationDrawer, for a click on point
HandleClick ==
    /\ calibration.isDrawingCalibration
    /\ \E point \in ClickPoints :
         LET c == [calibration EXCEPT !.clicks = Append(@, point)]
         IN IF c.drawingStart = <<>>
            THEN CalibrationBecomes(startDrawing(c, point), "startDrawing", 0)
            ELSE CalibrationBecomes(finishDrawing(c, point), "finishDrawing", 0)

\* the Escape key
HandleKeyDown ==
    /\ calibration.isDrawingCalibration
    /\ CalibrationBecomes([cancelDrawing(calibration) EXCEPT !.clicks = <<>>], "cancelDrawing", 0)

\* the Apply button, with a number in the input field
HandleApply ==
    \E value \in RealLengths :
        /\ value > 0
        /\ CalibrationBecomes(setRealDistance(calibration, value), "setRealDistance", value)

\* the Clear button, shown while there is a line
HandleClear ==
    /\ calibration.line # NoLine
    /\ CalibrationBecomes([clearCalibration(calibration) EXCEPT !.clicks = <<>>], "clearCalibration", 0)

DrawInit == Untouched /\ call = NoCall

DrawNext ==
    \/ HandleSetScale
    \/ HandleClick
    \/ HandleKeyDown
    \/ HandleApply
    \/ HandleClear

DrawSpec == DrawInit /\ [][DrawNext]_vars

\* ----------------------------------------- useKnnTracker: the training
\* a step of the KNN training
KnnBecomes(k) ==
    /\ knn' = k
    /\ UNCHANGED <<store, method, isTrackingRef, abortControllerRef, frameCallbackIdRef, endedHandlerRef, loops, video, session, ai, mouse, call, calibration, loader>>

resetKnnTraining(k) ==
    [k EXCEPT !.targetSamples = 0, !.backgroundSamples = 0, !.knnReady = FALSE, !.isTrainingMode = FALSE]

\* addTrainingSample with the models loaded: targetSamples and
\* backgroundSamples are the values of the render the callback was made in
addTrainingSample(k, classLabel) ==
    LET targetSamples == k.rendered.targetSamples
        backgroundSamples == k.rendered.backgroundSamples
        newTargetSamples == IF classLabel = "target" THEN targetSamples + 1 ELSE targetSamples
        newBgSamples == IF classLabel = "background" THEN backgroundSamples + 1 ELSE backgroundSamples
        k1 == [k EXCEPT !.classifier[classLabel] = @ + 1]
        k2 == IF classLabel = "target"
              THEN [k1 EXCEPT !.targetSamples = targetSamples + 1]
              ELSE [k1 EXCEPT !.backgroundSamples = backgroundSamples + 1]
    IN IF newTargetSamples >= SamplesNeeded /\ newBgSamples >= SamplesNeeded
       THEN [k2 EXCEPT !.knnReady = TRUE]
       ELSE k2

\* startTraining with the models loaded
startTraining(k) ==
    [resetKnnTraining([k EXCEPT !.classifier = [target |-> 0, background |-> 0]]) EXCEPT !.isTrainingMode = TRUE]

stopTraining(k) == [k EXCEPT !.isTrainingMode = FALSE]

\* the Start Training button, rendered when the last render saw no training
\* mode, and enabled when it saw no run
StartTraining ==
    /\ ~knn.rendered.isTrainingMode
    /\ ~knn.rendered.isTracking
    /\ KnnBecomes(startTraining(knn))

\* the Done Training button, rendered in its place
StopTraining ==
    /\ knn.rendered.isTrainingMode
    /\ KnnBecomes(stopTraining(knn))

\* handleClick of KnnTrainingOverlay
AddTrainingSample ==
    /\ knn.rendered.isTrainingMode
    /\ \E classLabel \in {"target", "background"} :
         /\ knn.classifier[classLabel] < MaxSamples
         /\ KnnBecomes(addTrainingSample(knn, classLabel))

\* React renders the components: the callbacks now hold the store's values
Render ==
    /\ MicrotasksDone
    /\ KnnBecomes([knn EXCEPT !.rendered = [targetSamples |-> knn.targetSamples, backgroundSamples |-> knn.backgroundSamples,
                                            knnReady |-> knn.knnReady, isTrainingMode |-> knn.isTrainingMode,
                                            isTracking |-> store.isTracking]])

\* runTracking of the KNN tracker, with the models loaded, up to its first
\* seek wait; knnReady is the value of the render the callback was made in
KnnRunTracking(step) ==
    /\ MicrotasksDone
    /\ ~store.isTracking
    /\ ~knn.rendered.isTracking
    /\ \E l \in LoopIds :
         /\ FreeSlot(l)
         /\ Becomes(runTracking(Cur, "knn-custom", IF knn.rendered.knnReady THEN "ok" ELSE "notTrained", step, l))

KnnInit ==
    /\ store = InitialStore
    /\ method = "knn-custom"
    /\ isTrackingRef = [d \in Detectors |-> FALSE]
    /\ abortControllerRef = [d \in Detectors |-> Null]
    /\ frameCallbackIdRef = [d \in PlaybackDriven |-> NoLoop]
    /\ endedHandlerRef = NoLoop
    /\ loops = [l \in LoopIds |-> IdleLoop]
    /\ video = [currentTime |-> 0, paused |-> TRUE, started |-> FALSE, endedEvent |-> FALSE]
    /\ session = IdleSession
    /\ ai = InitialAi(DefaultAiConfig)
    /\ mouse = InitialMouse
    /\ call = NoCall
    /\ calibration = InitialCalibration
    /\ knn = InitialKnn
    /\ loader = InitialLoader

KnnNext ==
    \/ StartTraining
    \/ StopTraining
    \/ AddTrainingSample
    \/ Render
    \/ \E step \in 1..MaxSampleStep : KnnRunTracking(step)
    \/ HandleStopTracking

KnnSpec == KnnInit /\ [][KnnNext]_vars

\* ------------------------------------------- loadModel, loadKnnModels
\* a loader returns the cached instances when it has them all
Cached(f, L) ==
    IF f = "loadModel" THEN L.modelInstance # 0 ELSE L.modelInstance # 0 /\ L.knnClassifierInstance # 0

\* a call of the loader that starts a load whenever nothing is cached
loadStartingAnew(f, L) ==
    IF Cached(f, L)
    THEN [L EXCEPT !.calls = @ + 1, !.received = @ \cup {<<L.modelInstance, L.knnClassifierInstance>>}]
    ELSE LET id == Len(L.loads) + 1
         IN [L EXCEPT !.calls = @ + 1, !.loads = Append(@, "loading"), !.modelPromise = id, !.waiting = @ \cup {id}]

\* a call of the loader, up to the first await of the load it may start
load(f, L) ==
    IF Cached(f, L)
    THEN [L EXCEPT !.calls = @ + 1, !.received = @ \cup {<<L.modelInstance, L.knnClassifierInstance>>}]
    ELSE IF L.modelPromise # 0
         THEN [L EXCEPT !.calls = @ + 1, !.waiting = @ \cup {L.modelPromise}]
         ELSE LET id == Len(L.loads) + 1
              IN [L EXCEPT !.calls = @ + 1, !.loads = Append(@, "loading"), !.modelPromise = id, !.waiting = @ \cup {id}]

\* the catch block of a load: the promise is reset and the callers that wait
\* on it get the error
loadFailed(L, id) ==
    [L EXCEPT !.modelPromise = 0, !.loads[id] = "rejected", !.waiting = @ \ {id}]

\* the load returns the instances: the callers that wait on it receive them
loadReturned(L, id) ==
    [L EXCEPT !.loads[id] = "fulfilled", !.waiting = @ \ {id},
              !.received = IF id \in L.waiting THEN @ \cup {<<L.modelInstance, L.knnClassifierInstance>>} ELSE @]

\* load id goes on after an await: the imports and the model's load() have
\* succeeded or one of them has thrown; loadKnnModels then creates the
\* classifier, which may throw as well
loadGoesOn(f, L, id, ok) ==
    IF ~ok
    THEN loadFailed(L, id)
    ELSE IF L.loads[id] = "loading"
         THEN IF f = "loadModel"
              THEN loadReturned([L EXCEPT !.modelInstance = id], id)
              ELSE [L EXCEPT !.modelInstance = id, !.loads[id] = "creating"]
         ELSE loadReturned([L EXCEPT !.knnClassifierInstance = id], id)

LoadCall ==
    \E f \in Loaders :
        /\ loader[f].calls < MaxCalls
        /\ loader' = [loader EXCEPT ![f] = load(f, @)]
        /\ UNCHANGED <<store, method, isTrackingRef, abortControllerRef, frameCallbackIdRef, endedHandlerRef, loops, video, session, ai, mouse, call, calibration, knn>>

LoadGoesOn ==
    \E f \in Loaders, ok \in BOOLEAN :
        \E id \in DOMAIN loader[f].loads :
            /\ loader[f].loads[id] \in {"loading", "creating"}
            /\ loader' = [loader EXCEPT ![f] = loadGoesOn(f, @, id, ok)]
            /\ UNCHANGED <<store, method, isTrackingRef, abortControllerRef, frameCallbackIdRef, endedHandlerRef, loops, video, session, ai, mouse, call, calibration, knn>>

LoadInit == Untouched /\ call = NoCall

LoadNext ==
    \/ LoadCall
    \/ LoadGoesOn

LoadSpec == LoadInit /\ [][LoadNext]_vars

\* ------------------------------------------ the seek-driven runs alone
\* the session is one of a seek-driven method, chosen before it starts
LiveInit ==
    /\ store = InitialStore
    /\ method \in SeekDriven
    /\ isTrackingRef = [d \in Detectors |-> FALSE]
    /\ abortControllerRef = [d \in Detectors |-> Null]
    /\ frameCallbackIdRef = [d \in PlaybackDriven |-> NoLoop]
    /\ endedHandlerRef = NoLoop
    /\ loops = [l \in LoopIds |-> IdleLoop]
    /\ video = [currentTime |-> 0, paused |-> TRUE, started |-> FALSE, endedEvent |-> FALSE]
    /\ session = IdleSession
    /\ ai = InitialAi(DefaultAiConfig)
    /\ mouse = InitialMouse
    /\ call = NoCall
    /\ calibration = InitialCalibration
    /\ knn = InitialKnn
    /\ loader = InitialLoader

\* the steps of the brightness, AI and KNN trackers and of their user
SeekNext ==
    \/ \E pre \in {"ok", "noVideo", "noModel", "noTargetClass", "notTrained"}, step \in 1..MaxSampleStep : HandleStartTracking(pre, step, TRUE)
    \/ HandleStopTracking
    \/ HandleReset
    \/ VideoSeeked
    \/ VideoError
    \/ \E l \in LoopIds : SeekTimeout(l)
    \/ \E l \in LoopIds : SeekFailed(l)
    \/ \E l \in LoopIds : AfterSeek(l)
    \/ \E l \in LoopIds, outcome \in {"point", "null", "throw"} : DetectReturns(l, outcome)
    \/ \E l \in LoopIds : YieldReturns(l)

\* every seek ends with 'seeked', 'error' or the timeout; the continuation
\* of a promise that is settled runs; the detector answers; the timer of the
\* yield fires
SeekFairness ==
    /\ WF_vars(VideoSeeked \/ VideoError \/ \E l \in LoopIds : SeekTimeout(l))
    /\ \A l \in LoopIds :
         /\ WF_vars(SeekFailed(l))
         /\ WF_vars(AfterSeek(l))
         /\ WF_vars(\E outcome \in {"point", "null", "throw"} : DetectReturns(l, outcome))
         /\ WF_vars(YieldReturns(l))

\* the seek-driven runs without the fairness assumptions
SeekSpec == LiveInit /\ [][SeekNext]_vars

LiveSpec == LiveInit /\ [][SeekNext]_vars /\ SeekFairness

\* C31: after any sequence of startDrawing, finishDrawing, cancelDrawing,
\* setRealDistance and clearCalibration, pixelsPerCm is null exactly when
\* there is no line; with a line, pixelsPerCm is line.pixelLength /
\* line.realDistanceCm, pixelLength is the Euclidean distance of the line's
\* endpoints, and realDistanceCm is above 0.
C31_ScaleMatchesLine ==
    LET line == calibration.line
    IN /\ calibration.pixelsPerCm = <<>> <=> line = NoLine
       /\ line # NoLine =>
            /\ calibration.pixelsPerCm = Ratio(line.pixelLength, line.realDistanceCm)
            /\ line.pixelLength = Sqrt((line.end[1] - line.start[1]) * (line.end[1] - line.start[1])
                                       + (line.end[2] - line.start[2]) * (line.end[2] - line.start[2]))
            /\ line.realDistanceCm > 0

\* a line from (12, 0) to (16, 20) whose real length was set to 2 cm, while
\* a new line is being drawn
C31_Witness ==
    /\ calibration.line # NoLine
    /\ calibration.line.start = <<12, 0>>
    /\ calibration.line.end = <<16, 20>>
    /\ calibration.line.realDistanceCm = 2
    /\ calibration.pixelsPerCm = Ratio(Sqrt(416), 2)
    /\ calibration.isDrawingCalibration

\* C32: calculatePixelsPerCm raises an error for realCm <= 0, and
\* setRealDistance(cm) with cm <= 0, or without a line, leaves line and
\* pixelsPerCm as they are.
C32_RejectsNonPositive ==
    /\ []((call.fn = "calculatePixelsPerCm" /\ call.returned /\ call.realCm <= 0) => call.result = <<"throw">>)
    /\ [][(calibration'.lastOp.op = "setRealDistance" /\ (calibration'.lastOp.cm <= 0 \/ calibration.line = NoLine))
            => (calibration'.line = calibration.line /\ calibration'.pixelsPerCm = calibration.pixelsPerCm)]_vars

\* setRealDistance(-1) was called on a line whose real length is 2 cm
C32_Witness ==
    /\ calibration.lastOp = [op |-> "setRealDistance", cm |-> 0 - 1]
    /\ calibration.line # NoLine
    /\ calibration.line.realDistanceCm = 2
    /\ calibration.pixelsPerCm = Ratio(calibration.line.pixelLength, 2)

\* C36: drawing the calibration line takes two clicks: after Set Scale the
\* first click sets the start point and leaves the drawing open, the second
\* click finishes it, and a line that is stored has the two clicked points
\* as its endpoints; a second click less than 20 px from the first stores
\* nothing and leaves the previous line and scale as they were.
C36_TwoClicks ==
    /\ [](/\ Len(calibration.clicks) = 1 =>
                (calibration.isDrawingCalibration /\ calibration.drawingStart = calibration.clicks[1])
          /\ Len(calibration.clicks) = 2 =>
                /\ ~calibration.isDrawingCalibration
                /\ calculatePixelDistance(calibration.clicks[1], calibration.clicks[2])[2] >= MinLineLength * MinLineLength =>
                     (calibration.line.start = calibration.clicks[1] /\ calibration.line.end = calibration.clicks[2]))
    /\ [][(/\ Len(calibration'.clicks) = 2
           /\ Len(calibration.clicks) = 1
           /\ calculatePixelDistance(calibration'.clicks[1], calibration'.clicks[2])[2] < MinLineLength * MinLineLength)
            => (calibration'.line = calibration.line /\ calibration'.pixelsPerCm = calibration.pixelsPerCm)]_vars

\* C33: over any sequence of startTraining, addTrainingSample, stopTraining
\* and runTracking, with clicks that come before the previous update is
\* rendered, knnReady is true only if at least 3 target and 3 background
\* samples were added to the classifier since the last startTraining, and
\* a KNN run enters Running only when knnReady is true.
C33_ReadyMeansTrained ==
    /\ [](knn.knnReady => (knn.classifier.target >= SamplesNeeded /\ knn.classifier.background >= SamplesNeeded))
    /\ [][(~store.isTracking /\ store'.isTracking) => knn.knnReady]_vars

\* C34: a frame in which no searched window is classified target with a
\* confidence of at least knnConfidence gives position null and leaves the
\* last known position as it was; a frame with such windows reports one of
\* the highest confidence among them and moves the last known position to
\* it.
C34_SearchAnchor ==
    (call.fn = "searchForTarget" /\ call.returned) =>
        LET qualifying == {x \in DOMAIN call.predictions :
                              /\ call.predictions[x].label = "target"
                              /\ call.predictions[x].confidence >= call.knnConfidence}
        IN IF qualifying = {}
           THEN /\ call.result.centerOfMass = NoNumber
                /\ call.result.lastPositionRef = call.lastPosition
           ELSE /\ call.result.centerOfMass \in qualifying
                /\ \A x \in qualifying : call.predictions[x].confidence <= call.predictions[call.result.centerOfMass].confidence
                /\ call.result.aiScore = call.predictions[call.result.centerOfMass].confidence
                /\ call.result.lastPositionRef = call.result.centerOfMass

\* around the last position 2 the search met a target of confidence 2/3
\* and then one of confidence 3/3, to which the anchor moved
C34_Witness ==
    /\ call.fn = "searchForTarget"
    /\ call.returned
    /\ call.lastPosition = 2
    /\ call.knnConfidence = 2
    /\ DOMAIN call.predictions = 1..3
    /\ call.predictions[1] = [label |-> "target", confidence |-> 2]
    /\ call.predictions[3] = [label |-> "target", confidence |-> 3]
    /\ call.result.centerOfMass = 3
    /\ call.result.lastPositionRef = 3

\* C37: under any interleaving of calls of a loader, at most one load of it
\* is in progress at a time, no load is started after one has succeeded and
\* every caller receives the instances of that load; when a load has failed
\* the promise is cleared, and the next call starts a fresh load.
C37_SingleFlight ==
    /\ [](\A f \in Loaders :
            LET L == loader[f]
                inProgress == {id \in DOMAIN L.loads : L.loads[id] \in {"loading", "creating"}}
                succeeded == {id \in DOMAIN L.loads : L.loads[id] = "fulfilled"}
            IN /\ Cardinality(inProgress) <= 1
               /\ Cardinality(succeeded) <= 1
               /\ succeeded # {} => inProgress = {}
               /\ \A id \in succeeded : id = Len(L.loads)
               /\ L.received \subseteq {<<id, IF f = "loadModel" THEN 0 ELSE id>> : id \in succeeded}
               /\ (inProgress = {} /\ succeeded = {}) => L.modelPromise = 0)
    /\ [][\A f \in Loaders :
            (/\ loader'[f].calls = loader[f].calls + 1
             /\ loader[f].loads # <<>>
             /\ \A id \in DOMAIN loader[f].loads : loader[f].loads[id] = "rejected")
                => (/\ Len(loader'[f].loads) = Len(loader[f].loads) + 1
                    /\ loader'[f].modelPromise = Len(loader'[f].loads))]_vars

\* loadKnnModels: the first load failed after MobileNet was loaded, the second
\* succeeded, and three callers have received its instances
C37_Witness ==
    LET L == loader["loadKnnModels"]
    IN /\ L.loads = <<"rejected", "fulfilled">>
       /\ L.calls >= 3
       /\ L.received = {<<2, 2>>}
       /\ L.waiting = {}

\* C35: once a pose run has ended, by finishTracking (the 'ended' event) or
\* by cancelTracking, no later step of it changes the session: when the pose
\* estimation that was in flight at that moment comes back, its frame is not
\* added to the results and the progress is not written.
C35_EndedPoseRunIsInert ==
    [][\A l \in LoopIds :
         (/\ loops[l].det = "movenet-pose"
          /\ loops[l].trackingFinished \/ loops[l].cancelled
          /\ \E outcome \in {"point", "null", "throw"}, throttleOpen \in BOOLEAN : EstimateReturns(l, outcome, throttleOpen))
         => /\ store'.results = store.results
            /\ store'.trackingProgress = store.trackingProgress]_vars

\* C40: the progress of the session is always within 0..100, and within a
\* run it never decreases: it is 0 when the run starts, no later step of the
\* run lowers it, and it is 100 when the run completes.
C40_Progress ==
    /\ [](store.trackingProgress \in 0..100)
    /\ [][/\ (RunStarts /\ store'.isTracking) => store'.trackingProgress = 0
          /\ (~RunStarts /\ session.phase \in {"Running", "Completed"} /\ session'.phase \in {"Running", "Completed"})
                => store'.trackingProgress >= store.trackingProgress
          /\ (session.phase # "Completed" /\ session'.phase = "Completed") => store'.trackingProgress = 100]_vars

====
